---- MODULE Spec2Model ----
(***************************************************************************)
(* Windows-1252 codec: decode (bytes -> UTF-16 string) and encode          *)
(* (UTF-16 string -> bytes), with the two lookup tables, the per-element   *)
(* loops of both functions and a caller that runs one call or a round trip *)
(* of two calls, and that may store into the arrays it holds.              *)
(*                                                                         *)
(* Specifications: Spec (one call, or a chain of calls each on the result  *)
(* of the one before), SpecArrays (the caller also repeats an encode call  *)
(* and stores into its arrays), SpecThreads (calls side by side, their     *)
(* steps in any order), SpecParts (a whole input, then its two parts),     *)
(* SpecModes (the first call again with other options), SpecNumbers        *)
(* (decode on a number[] of any numbers).                                  *)
(*                                                                         *)
(* A JavaScript string is a sequence of 16-bit code units (integers        *)
(* 0..65535) and a value.  An array (number[] or Uint8Array) is an object: *)
(* a view, [buffer, length], onto the storage heap[buffer], so that two    *)
(* arrays over one buffer see each other's stores.  JavaScript indices are *)
(* 0-based and kept so (i, charIndex, byteIndex); the element at           *)
(* JavaScript index k of a sequence s is s[k + 1].                         *)
(***************************************************************************)
EXTENDS Integers, Sequences, FiniteSets, TLC

VARIABLES
    dec,      \* the running decode call's frame, or NoFrame
    enc,      \* the running encode call's frame, or NoFrame
    history,  \* the caller's finished calls, oldest first
    heap,     \* the storage of every array object: number[] or ArrayBuffer
    tables,   \* the two module-level lookup objects
    writes,   \* the element stores the caller itself made, oldest first
    threads   \* calls running side by side, each a frame or a finished call

vars == <<dec, enc, history, heap, tables, writes, threads>>

(***************************************************************************)
(* Bounds of the model.                                                    *)
(***************************************************************************)
\* longest multi-element input the caller passes
MaxLen == 3
\* single code units 0..MaxDenseUnit are all tried as one-unit strings
MaxDenseUnit == 400
\* calls the caller makes in a row (a round trip is two)
MaxCalls == 2
\* element stores the caller makes into arrays it holds
MaxWrites == 1
\* longest first input of a run in which the caller uses its arrays again
MaxArrayLen == 2

(***************************************************************************)
(* The lookup tables.                                                      *)
(***************************************************************************)
\* variant: the entries of 0x86 and 0x87 exchanged
WINDOWS_1252_MAP_Swapped ==
    (128 :> 8364) @@ (130 :> 8218) @@ (131 :> 402) @@ (132 :> 8222) @@
    (133 :> 8230) @@ (134 :> 8225) @@ (135 :> 8224) @@ (136 :> 710) @@
    (137 :> 8240) @@ (138 :> 352) @@ (139 :> 8249) @@ (140 :> 338) @@
    (142 :> 381) @@ (145 :> 8216) @@ (146 :> 8217) @@ (147 :> 8220) @@
    (148 :> 8221) @@ (149 :> 8226) @@ (150 :> 8211) @@ (151 :> 8212) @@
    (152 :> 732) @@ (153 :> 8482) @@ (154 :> 353) @@ (155 :> 8250) @@
    (156 :> 339) @@ (158 :> 382) @@ (159 :> 376)

\* decode: 0x80..0x9F -> code point; 0x81, 0x8D, 0x8F, 0x90, 0x9D are absent
WINDOWS_1252_MAP ==
    (128 :> 8364) @@   \* 0x80: 0x20ac
    (130 :> 8218) @@   \* 0x82: 0x201a
    (131 :> 402) @@    \* 0x83: 0x0192
    (132 :> 8222) @@   \* 0x84: 0x201e
    (133 :> 8230) @@   \* 0x85: 0x2026
    (134 :> 8224) @@   \* 0x86: 0x2020
    (135 :> 8225) @@   \* 0x87: 0x2021
    (136 :> 710) @@    \* 0x88: 0x02c6
    (137 :> 8240) @@   \* 0x89: 0x2030
    (138 :> 352) @@    \* 0x8a: 0x0160
    (139 :> 8249) @@   \* 0x8b: 0x2039
    (140 :> 338) @@    \* 0x8c: 0x0152
    (142 :> 381) @@    \* 0x8e: 0x017d
    (145 :> 8216) @@   \* 0x91: 0x2018
    (146 :> 8217) @@   \* 0x92: 0x2019
    (147 :> 8220) @@   \* 0x93: 0x201c
    (148 :> 8221) @@   \* 0x94: 0x201d
    (149 :> 8226) @@   \* 0x95: 0x2022
    (150 :> 8211) @@   \* 0x96: 0x2013
    (151 :> 8212) @@   \* 0x97: 0x2014
    (152 :> 732) @@    \* 0x98: 0x02dc
    (153 :> 8482) @@   \* 0x99: 0x2122
    (154 :> 353) @@    \* 0x9a: 0x0161
    (155 :> 8250) @@   \* 0x9b: 0x203a
    (156 :> 339) @@    \* 0x9c: 0x0153
    (158 :> 382) @@    \* 0x9e: 0x017e
    (159 :> 376)       \* 0x9f: 0x0178

\* variant: U+017E mapped to 0x9D instead of 0x9E
UNICODE_TO_WINDOWS_1252_Shifted ==
    (8364 :> 128) @@ (8218 :> 130) @@ (402 :> 131) @@ (8222 :> 132) @@
    (8230 :> 133) @@ (8224 :> 134) @@ (8225 :> 135) @@ (710 :> 136) @@
    (8240 :> 137) @@ (352 :> 138) @@ (8249 :> 139) @@ (338 :> 140) @@
    (381 :> 142) @@ (8216 :> 145) @@ (8217 :> 146) @@ (8220 :> 147) @@
    (8221 :> 148) @@ (8226 :> 149) @@ (8211 :> 150) @@ (8212 :> 151) @@
    (732 :> 152) @@ (8482 :> 153) @@ (353 :> 154) @@ (8250 :> 155) @@
    (339 :> 156) @@ (382 :> 157) @@ (376 :> 159)

\* variant: an entry more, for the control code U+0081
UNICODE_TO_WINDOWS_1252_Extra ==
    (8364 :> 128) @@ (129 :> 129) @@ (8218 :> 130) @@ (402 :> 131) @@
    (8222 :> 132) @@ (8230 :> 133) @@ (8224 :> 134) @@ (8225 :> 135) @@
    (710 :> 136) @@ (8240 :> 137) @@ (352 :> 138) @@ (8249 :> 139) @@
    (338 :> 140) @@ (381 :> 142) @@ (8216 :> 145) @@ (8217 :> 146) @@
    (8220 :> 147) @@ (8221 :> 148) @@ (8226 :> 149) @@ (8211 :> 150) @@
    (8212 :> 151) @@ (732 :> 152) @@ (8482 :> 153) @@ (353 :> 154) @@
    (8250 :> 155) @@ (339 :> 156) @@ (382 :> 158) @@ (376 :> 159)

\* encode: code point -> 0x80..0x9F
UNICODE_TO_WINDOWS_1252 ==
    (8364 :> 128) @@   \* 0x20ac: 0x80
    (8218 :> 130) @@   \* 0x201a: 0x82
    (402 :> 131) @@    \* 0x0192: 0x83
    (8222 :> 132) @@   \* 0x201e: 0x84
    (8230 :> 133) @@   \* 0x2026: 0x85
    (8224 :> 134) @@   \* 0x2020: 0x86
    (8225 :> 135) @@   \* 0x2021: 0x87
    (710 :> 136) @@    \* 0x02c6: 0x88
    (8240 :> 137) @@   \* 0x2030: 0x89
    (352 :> 138) @@    \* 0x0160: 0x8a
    (8249 :> 139) @@   \* 0x2039: 0x8b
    (338 :> 140) @@    \* 0x0152: 0x8c
    (381 :> 142) @@    \* 0x017d: 0x8e
    (8216 :> 145) @@   \* 0x2018: 0x91
    (8217 :> 146) @@   \* 0x2019: 0x92
    (8220 :> 147) @@   \* 0x201c: 0x93
    (8221 :> 148) @@   \* 0x201d: 0x94
    (8226 :> 149) @@   \* 0x2022: 0x95
    (8211 :> 150) @@   \* 0x2013: 0x96
    (8212 :> 151) @@   \* 0x2014: 0x97
    (732 :> 152) @@    \* 0x02dc: 0x98
    (8482 :> 153) @@   \* 0x2122: 0x99
    (353 :> 154) @@    \* 0x0161: 0x9a
    (8250 :> 155) @@   \* 0x203a: 0x9b
    (339 :> 156) @@    \* 0x0153: 0x9c
    (382 :> 158) @@    \* 0x017e: 0x9e
    (376 :> 159)       \* 0x0178: 0x9f

(***************************************************************************)
(* JavaScript primitives the two functions call.                           *)
(***************************************************************************)
NoFrame == [fn |-> "none"]

\* options.mode as the caller gives it; "undefined" is both a call without
\* options and a call with {}
Options == {"undefined", "replacement", "fatal"}

\* const { mode = 'replacement' } = options
DecodeDefaultMode(options) ==
    IF options = "undefined" THEN "replacement" ELSE options

\* variant: encode takes decode's default
EncodeDefaultMode_Replacement(options) ==
    IF options = "undefined" THEN "replacement" ELSE options

\* const { mode = 'fatal' } = options
EncodeDefaultMode(options) ==
    IF options = "undefined" THEN "fatal" ELSE options

IsHighSurrogate(u) == u >= 55296 /\ u <= 56319   \* 0xD800..0xDBFF
IsLowSurrogate(u) == u >= 56320 /\ u <= 57343    \* 0xDC00..0xDFFF

\* String.prototype.codePointAt(i), i a 0-based index inside the string
CodePointAt(str, i) ==
    LET first == str[i + 1] IN
    IF IsHighSurrogate(first) /\ i + 1 < Len(str) /\ IsLowSurrogate(str[i + 2])
    THEN (first - 55296) * 1024 + (str[i + 2] - 56320) + 65536
    ELSE first

\* the UTF-16 code units of one code point
CodeUnits(codePoint) ==
    IF codePoint <= 65535
    THEN <<codePoint>>
    ELSE <<55296 + ((codePoint - 65536) \div 1024),
           56320 + ((codePoint - 65536) % 1024)>>

\* String.fromCodePoint(...codePoints)
RECURSIVE FromCodePoint(_)
FromCodePoint(codePoints) ==
    IF codePoints = <<>>
    THEN <<>>
    ELSE CodeUnits(Head(codePoints)) \o FromCodePoint(Tail(codePoints))

\* digits of Number.prototype.toString(radix)
Digit == <<"0", "1", "2", "3", "4", "5", "6", "7", "8", "9",
           "a", "b", "c", "d", "e", "f">>

RECURSIVE NatToString(_, _)
NatToString(n, radix) ==
    IF n < radix
    THEN <<Digit[n + 1]>>
    ELSE NatToString(n \div radix, radix) \o <<Digit[(n % radix) + 1]>>

\* Number.prototype.toString(radix) of an integer: one character per element
NumberToString(n, radix) ==
    IF n < 0 THEN <<"-">> \o NatToString(0 - n, radix) ELSE NatToString(n, radix)

UpperChar(c) ==
    CASE c = "a" -> "A" [] c = "b" -> "B" [] c = "c" -> "C"
      [] c = "d" -> "D" [] c = "e" -> "E" [] c = "f" -> "F"
      [] OTHER -> c

\* String.prototype.toUpperCase()
ToUpperCase(s) == [k \in DOMAIN s |-> UpperChar(s[k])]

\* String.prototype.padStart(targetLength, pad), pad one character
RECURSIVE PadStart(_, _, _)
PadStart(s, targetLength, pad) ==
    IF Len(s) >= targetLength THEN s ELSE PadStart(<<pad>> \o s, targetLength, pad)

\* Array.prototype.slice(0, end) of a local array
Slice(array, end) == SubSeq(array, 1, end)

\* an array object: `length` elements at the start of the storage `buffer`
View(buffer, length) == [buffer |-> buffer, length |-> length]

\* no array
NoArray == View(0, 0)

\* the elements of an array, as reading it index by index gives them
Read(store, array) == SubSeq(store[array.buffer], 1, array.length)

\* TypedArray.prototype.subarray(0, end): a new view onto the same buffer
Subarray(array, end) ==
    View(array.buffer, IF end < array.length THEN end ELSE array.length)

\* variant: the store keeps seven bits
ToUint8_SevenBit(n) == n % 128

\* the value a Uint8Array element holds after an integer is stored in it
ToUint8(n) == n % 256

(***************************************************************************)
(* What one loop iteration does: it stores one value, or it throws.        *)
(***************************************************************************)
Emit(value) == [throws |-> FALSE, value |-> value]
Throw(error) == [throws |-> TRUE, error |-> error]

\* new Error(message): the message is its template with the interpolated
\* texts beside it, numbers spelled one character per element
Error(message) == [name |-> "Error", message |-> message]

(***************************************************************************)
(* decode                                                                  *)
(***************************************************************************)
\* `Invalid byte value: ${byte} (must be 0-255)`
InvalidByteValue(byte) ==
    Error([text |-> "Invalid byte value: ${byte} (must be 0-255)",
           byte |-> NumberToString(byte, 10)])

\* variant: the hexadecimal digits left in lower case
UndefinedWindows1252Byte_LowerCase(byte) ==
    Error([text |-> "Invalid Windows-1252 byte: 0x${hex}",
           hex |-> NumberToString(byte, 16)])

\* `Invalid Windows-1252 byte: 0x${byte.toString(16).toUpperCase()}`
UndefinedWindows1252Byte(byte) ==
    Error([text |-> "Invalid Windows-1252 byte: 0x${hex}",
           hex |-> ToUpperCase(NumberToString(byte, 16))])

\* variant: no range validation
OutOfByteRange_Unchecked(byte) == FALSE

\* if (byte < 0 || byte > 0xff)
OutOfByteRange(byte) == byte < 0 \/ byte > 255

\* variant: replacement mode stores '?' for an element it cannot decode
DecodeElement_ReplacesWithQuestion(byte, mode) ==
    IF OutOfByteRange(byte)
    THEN IF mode = "fatal"
         THEN Throw(InvalidByteValue(byte))
         ELSE Emit(63)
    ELSE IF byte < 128
    THEN Emit(byte)
    ELSE IF byte <= 159
    THEN IF byte \in DOMAIN tables.WINDOWS_1252_MAP
         THEN Emit(tables.WINDOWS_1252_MAP[byte])
         ELSE IF mode = "fatal"
              THEN Throw(UndefinedWindows1252Byte(byte))
              ELSE Emit(63)
    ELSE Emit(byte)

\* variant: replacement mode keeps an undefined byte as the Latin-1 control
\* code of the same number
DecodeElement_UndefinedAsLatin1(byte, mode) ==
    IF OutOfByteRange(byte)
    THEN IF mode = "fatal"
         THEN Throw(InvalidByteValue(byte))
         ELSE Emit(65533)
    ELSE IF byte < 128
    THEN Emit(byte)
    ELSE IF byte <= 159
    THEN IF byte \in DOMAIN tables.WINDOWS_1252_MAP
         THEN Emit(tables.WINDOWS_1252_MAP[byte])
         ELSE IF mode = "fatal"
              THEN Throw(UndefinedWindows1252Byte(byte))
              ELSE Emit(byte)
    ELSE Emit(byte)

\* variant: an out-of-range element is replaced whatever the mode
DecodeElement_RangeNeverFatal(byte, mode) ==
    IF OutOfByteRange(byte)
    THEN Emit(65533)
    ELSE IF byte < 128
    THEN Emit(byte)
    ELSE IF byte <= 159
    THEN IF byte \in DOMAIN tables.WINDOWS_1252_MAP
         THEN Emit(tables.WINDOWS_1252_MAP[byte])
         ELSE IF mode = "fatal"
              THEN Throw(UndefinedWindows1252Byte(byte))
              ELSE Emit(65533)
    ELSE Emit(byte)

\* variant: an undefined byte throws whatever the mode
DecodeElement_SkipsModeCheck(byte, mode) ==
    IF OutOfByteRange(byte)
    THEN IF mode = "fatal"
         THEN Throw(InvalidByteValue(byte))
         ELSE Emit(65533)
    ELSE IF byte < 128
    THEN Emit(byte)
    ELSE IF byte <= 159
    THEN IF byte \in DOMAIN tables.WINDOWS_1252_MAP
         THEN Emit(tables.WINDOWS_1252_MAP[byte])
         ELSE Throw(UndefinedWindows1252Byte(byte))
    ELSE Emit(byte)

\* variant: the special zone ends at 0xA0 instead of 0x9F
DecodeElement_ZoneOffByOne(byte, mode) ==
    IF OutOfByteRange(byte)
    THEN IF mode = "fatal"
         THEN Throw(InvalidByteValue(byte))
         ELSE Emit(65533)
    ELSE IF byte < 128
    THEN Emit(byte)
    ELSE IF byte <= 160
    THEN IF byte \in DOMAIN tables.WINDOWS_1252_MAP
         THEN Emit(tables.WINDOWS_1252_MAP[byte])
         ELSE IF mode = "fatal"
              THEN Throw(UndefinedWindows1252Byte(byte))
              ELSE Emit(65533)
    ELSE Emit(byte)

\* the body of decode's for loop, for the element `byte`
DecodeElement(byte, mode) ==
    IF OutOfByteRange(byte)
    THEN IF mode = "fatal"
         THEN Throw(InvalidByteValue(byte))
         ELSE Emit(65533)                        \* 0xfffd
    ELSE IF byte < 128                           \* 0x80
    THEN Emit(byte)
    ELSE IF byte <= 159                          \* 0x9f
    THEN IF byte \in DOMAIN tables.WINDOWS_1252_MAP     \* codePoint !== undefined
         THEN Emit(tables.WINDOWS_1252_MAP[byte])
         ELSE IF mode = "fatal"
              THEN Throw(UndefinedWindows1252Byte(byte))
              ELSE Emit(65533)                   \* 0xfffd
    ELSE Emit(byte)

\* an Array element no value was stored in
Hole == -1

\* new Array(length)
NewArray(length) == [k \in 1..length |-> Hole]

\* variant: the loop starts at the second element
DecodeFrame_StartsAtOne(bytes, options) ==
    [fn |-> "decode", bytes |-> bytes, options |-> options,
     mode |-> DecodeDefaultMode(options), length |-> bytes.length,
     chars |-> NewArray(bytes.length), charIndex |-> 0, i |-> 1]

\* decode's locals when the call starts; bytes is the caller's array
DecodeFrame(bytes, options) ==
    [fn |-> "decode", bytes |-> bytes, options |-> options,
     mode |-> DecodeDefaultMode(options), length |-> bytes.length,
     chars |-> NewArray(bytes.length), charIndex |-> 0, i |-> 0]

\* variant: no code point stored gives the one-character string U+0000
DecodeResult_NeverEmpty(frame) ==
    IF frame.charIndex = 0
    THEN <<0>>
    ELSE FromCodePoint(Slice(frame.chars, frame.charIndex))

\* variant: the slice stops one element early
DecodeResult_ShortSlice(frame) ==
    FromCodePoint(Slice(frame.chars, frame.charIndex - 1))

\* return String.fromCodePoint(...chars.slice(0, charIndex))
DecodeResult(frame) == FromCodePoint(Slice(frame.chars, frame.charIndex))

(***************************************************************************)
(* encode                                                                  *)
(***************************************************************************)
\* variant: the hexadecimal digits are not padded
UnencodableCharacter_NoPad(codePoint) ==
    Error([text |-> "Character '${char}' (U+${hex}) cannot be encoded in Windows-1252",
           char |-> FromCodePoint(<<codePoint>>),
           hex |-> ToUpperCase(NumberToString(codePoint, 16))])

\* `Character '${String.fromCodePoint(codePoint)}' (U+${hex}) cannot be
\* encoded in Windows-1252`, hex = toString(16).toUpperCase().padStart(4, '0')
UnencodableCharacter(codePoint) ==
    Error([text |-> "Character '${char}' (U+${hex}) cannot be encoded in Windows-1252",
           char |-> FromCodePoint(<<codePoint>>),
           hex |-> PadStart(ToUpperCase(NumberToString(codePoint, 16)), 4, "0")])

\* variant: replacement mode stores 0x1A (SUB), not '?'
EncodeElement_ReplacementSub(codePoint, mode) ==
    IF codePoint < 128
    THEN Emit(codePoint)
    ELSE IF codePoint >= 160 /\ codePoint <= 255
    THEN Emit(codePoint)
    ELSE IF codePoint \in DOMAIN tables.UNICODE_TO_WINDOWS_1252
    THEN Emit(tables.UNICODE_TO_WINDOWS_1252[codePoint])
    ELSE IF mode = "fatal"
    THEN Throw(UnencodableCharacter(codePoint))
    ELSE Emit(26)

\* variant: a control code U+0080..U+009F without an entry is stored as it is
EncodeElement_ControlsPassThrough(codePoint, mode) ==
    IF codePoint < 128
    THEN Emit(codePoint)
    ELSE IF codePoint >= 160 /\ codePoint <= 255
    THEN Emit(codePoint)
    ELSE IF codePoint \in DOMAIN tables.UNICODE_TO_WINDOWS_1252
    THEN Emit(tables.UNICODE_TO_WINDOWS_1252[codePoint])
    ELSE IF codePoint >= 128 /\ codePoint <= 159
    THEN Emit(codePoint)
    ELSE IF mode = "fatal"
    THEN Throw(UnencodableCharacter(codePoint))
    ELSE Emit(63)

\* variant: the Latin-1 zone starts after 0xA0
EncodeElement_A0Excluded(codePoint, mode) ==
    IF codePoint < 128
    THEN Emit(codePoint)
    ELSE IF codePoint > 160 /\ codePoint <= 255
    THEN Emit(codePoint)
    ELSE IF codePoint \in DOMAIN tables.UNICODE_TO_WINDOWS_1252
    THEN Emit(tables.UNICODE_TO_WINDOWS_1252[codePoint])
    ELSE IF mode = "fatal"
    THEN Throw(UnencodableCharacter(codePoint))
    ELSE Emit(63)

\* variant: the Latin-1 zone starts at 0x80
EncodeElement_Latin1From80(codePoint, mode) ==
    IF codePoint < 128
    THEN Emit(codePoint)
    ELSE IF codePoint >= 128 /\ codePoint <= 255
    THEN Emit(codePoint)
    ELSE IF codePoint \in DOMAIN tables.UNICODE_TO_WINDOWS_1252
    THEN Emit(tables.UNICODE_TO_WINDOWS_1252[codePoint])
    ELSE IF mode = "fatal"
    THEN Throw(UnencodableCharacter(codePoint))
    ELSE Emit(63)

\* the body of encode's for loop up to the store, for the code point read
EncodeElement(codePoint, mode) ==
    IF codePoint < 128                                   \* 0x80
    THEN Emit(codePoint)
    ELSE IF codePoint >= 160 /\ codePoint <= 255         \* 0xa0, 0xff
    THEN Emit(codePoint)
    ELSE IF codePoint \in DOMAIN tables.UNICODE_TO_WINDOWS_1252 \* !== undefined
    THEN Emit(tables.UNICODE_TO_WINDOWS_1252[codePoint])
    ELSE IF mode = "fatal"
    THEN Throw(UnencodableCharacter(codePoint))
    ELSE Emit(63)                                        \* 0x3f

\* variant: the unit after any high surrogate is skipped too
NextIndex_SkipAfterHigh(i, codePoint) ==
    IF codePoint > 65535 \/ IsHighSurrogate(codePoint) THEN i + 2 ELSE i + 1

\* variant: the low surrogate is not skipped
NextIndex_NoSkip(i, codePoint) == i + 1

\* if (codePoint > 0xffff) i++, then the loop's own i++
NextIndex(i, codePoint) == IF codePoint > 65535 THEN i + 2 ELSE i + 1

\* new Uint8Array(length): the zero-filled storage of the new array
NewUint8Array(length) == [k \in 1..length |-> 0]

\* variant: one scratch buffer kept between calls
NewBuffer_Scratch ==
    IF \E k \in DOMAIN history : history[k].fn = "encode" /\ history[k].held # NoArray
    THEN history[CHOOSE k \in DOMAIN history :
                     history[k].fn = "encode" /\ history[k].held # NoArray].held.buffer
    ELSE Len(heap) + 1

\* new Uint8Array(length): the storage is one no other object has
NewBuffer == Len(heap) + 1

\* the heap after storage `buffer` is set to `elements`
Allocate(store, buffer, elements) ==
    [b \in DOMAIN store \cup {buffer} |-> IF b = buffer THEN elements ELSE store[b]]

\* variant: the loop starts at the second unit
EncodeFrame_StartsAtOne(str, options) ==
    [fn |-> "encode", str |-> str, options |-> options,
     mode |-> EncodeDefaultMode(options), length |-> Len(str),
     bytes |-> View(NewBuffer, Len(str)), byteIndex |-> 0, i |-> 1]

\* encode's locals when the call starts
EncodeFrame(str, options) ==
    [fn |-> "encode", str |-> str, options |-> options,
     mode |-> EncodeDefaultMode(options), length |-> Len(str),
     bytes |-> View(NewBuffer, Len(str)), byteIndex |-> 0, i |-> 0]

\* variant: the whole array is returned, not the part written
EncodeResult_Untrimmed(frame) == frame.bytes

\* return bytes.subarray(0, byteIndex)
EncodeResult(frame) == Subarray(frame.bytes, frame.byteIndex)

(***************************************************************************)
(* The inputs the caller passes.                                           *)
(***************************************************************************)
\* README.md, "Special Characters": byte -> code point of the 27 characters
Windows1252Reference ==
    (128 :> 8364) @@ (130 :> 8218) @@ (131 :> 402) @@ (132 :> 8222) @@
    (133 :> 8230) @@ (134 :> 8224) @@ (135 :> 8225) @@ (136 :> 710) @@
    (137 :> 8240) @@ (138 :> 352) @@ (139 :> 8249) @@ (140 :> 338) @@
    (142 :> 381) @@ (145 :> 8216) @@ (146 :> 8217) @@ (147 :> 8220) @@
    (148 :> 8221) @@ (149 :> 8226) @@ (150 :> 8211) @@ (151 :> 8212) @@
    (152 :> 732) @@ (153 :> 8482) @@ (154 :> 353) @@ (155 :> 8250) @@
    (156 :> 339) @@ (158 :> 382) @@ (159 :> 376)

\* the 27 code points of that table
SpecialCodePoints == {Windows1252Reference[b] : b \in DOMAIN Windows1252Reference}

\* the five bytes of 0x80..0x9F the README names as undefined
UndefinedBytes == {129, 141, 143, 144, 157}

SeqsOf(S, lo, hi) == UNION {[1..n -> S] : n \in lo..hi}

\* integers a number[] can hold that are no byte values
OutOfRangeValues == {-256, -129, -5, -1, 256, 321, 385, 999999}

\* elements of the longer byte inputs: '?', 'A', 0x80, 0x81, 0xE9, 300
SeqBytes == {63, 65, 128, 129, 233, 300}

\* decode is called with: nothing, every single byte, every single
\* out-of-range value, and every longer sequence over SeqBytes
DecodeInputs ==
    {<<>>} \cup {<<b>> : b \in (0..255) \cup OutOfRangeValues}
           \cup SeqsOf(SeqBytes, 2, MaxLen)

\* single code units tried as one-unit strings: a dense low range, the
\* table's code points and their neighbours, the surrogate range's edges,
\* U+4F60, U+FFFD, U+FFFF
SingleUnits ==
    (0..MaxDenseUnit)
    \cup UNION {{c - 1, c, c + 1} : c \in SpecialCodePoints}
    \cup {20320, 55295, 55296, 55357, 56319, 56320, 56842, 57343, 57344,
          65533, 65535}

\* high and low surrogates paired into code points U+10000..U+10FFFF
PairHighs == {55296, 55357, 56319}
PairLows == {56320, 56842, 57343}

\* elements of the longer strings: '?', 'A', U+0081, U+00E9, U+20AC and the
\* two halves of U+1F60A
SeqUnits == {63, 65, 129, 233, 8364, 55357, 56842}

EncodeInputs ==
    {<<>>} \cup {<<u>> : u \in SingleUnits}
           \cup {<<h, l>> : h \in PairHighs, l \in PairLows}
           \cup SeqsOf(SeqUnits, 2, MaxLen)

(***************************************************************************)
(* The state machine: a caller that makes up to MaxCalls calls, each call  *)
(* after the first taking the value the previous one returned.             *)
(***************************************************************************)
Idle == dec = NoFrame /\ enc = NoFrame

Init ==
    /\ dec = NoFrame
    /\ enc = NoFrame
    /\ history = <<>>
    /\ heap = <<>>
    /\ tables = [WINDOWS_1252_MAP |-> WINDOWS_1252_MAP,
                 UNICODE_TO_WINDOWS_1252 |-> UNICODE_TO_WINDOWS_1252]
    /\ writes = <<>>
    /\ threads = <<>>

\* what the caller knows of a finished call: the input as it was passed, the
\* mode the call ran in, the outcome with the returned elements as they were
\* on return, and the array the caller holds from the call (decode: the array
\* it passed; encode: the array returned)
Finished(frame, input, outcome, held) ==
    [fn |-> frame.fn, input |-> input, options |-> frame.options,
     mode |-> frame.mode, outcome |-> outcome, held |-> held]

Returned(value) == [kind |-> "return", value |-> value]
Thrown(error) == [kind |-> "throw", error |-> error]

\* the value the last finished call returned, if it returned
LastReturned(fn) ==
    /\ history # <<>>
    /\ history[Len(history)].fn = fn
    /\ history[Len(history)].outcome.kind = "return"

\* decode(bytes, options) is called on a fresh input
DecodeCall ==
    /\ Idle
    /\ history = <<>>
    /\ \E bytes \in DecodeInputs, options \in Options :
           /\ heap' = Append(heap, bytes)
           /\ dec' = DecodeFrame(View(Len(heap) + 1, Len(bytes)), options)
    /\ UNCHANGED <<enc, history, tables, writes, threads>>

\* decode(encoded, options): the caller decodes what encode returned
DecodeEncoded ==
    /\ Idle
    /\ Len(history) < MaxCalls
    /\ LastReturned("encode")
    /\ \E options \in Options :
           dec' = DecodeFrame(history[Len(history)].held, options)
    /\ UNCHANGED <<enc, history, heap, tables, writes, threads>>

\* variant: the code point is also stored back into the input array
DecodeIterate_StoresBack ==
    /\ dec.fn = "decode"
    /\ dec.i < dec.length
    /\ LET step == DecodeElement(heap[dec.bytes.buffer][dec.i + 1], dec.mode) IN
       /\ ~step.throws
       /\ dec' = [dec EXCEPT !.chars[dec.charIndex + 1] = step.value,
                             !.charIndex = dec.charIndex + 1,
                             !.i = dec.i + 1]
       /\ heap' = [heap EXCEPT ![dec.bytes.buffer][dec.i + 1] = step.value]
    /\ UNCHANGED <<enc, history, tables, writes, threads>>

\* one iteration of decode's loop that stores a code point
DecodeIterate ==
    /\ dec.fn = "decode"
    /\ dec.i < dec.length
    /\ LET step == DecodeElement(heap[dec.bytes.buffer][dec.i + 1], dec.mode) IN
       /\ ~step.throws
       /\ dec' = [dec EXCEPT !.chars[dec.charIndex + 1] = step.value,
                             !.charIndex = dec.charIndex + 1,
                             !.i = dec.i + 1]
    /\ UNCHANGED <<enc, history, heap, tables, writes, threads>>

\* one iteration of decode's loop that throws: the call ends with the error
DecodeThrow ==
    /\ dec.fn = "decode"
    /\ dec.i < dec.length
    /\ LET step == DecodeElement(heap[dec.bytes.buffer][dec.i + 1], dec.mode) IN
       /\ step.throws
       /\ history' = Append(history,
              Finished(dec, Read(heap, dec.bytes), Thrown(step.error), dec.bytes))
    /\ dec' = NoFrame
    /\ UNCHANGED <<enc, heap, tables, writes, threads>>

\* the loop is over: decode returns the string
DecodeReturn ==
    /\ dec.fn = "decode"
    /\ dec.i >= dec.length
    /\ history' = Append(history,
           Finished(dec, Read(heap, dec.bytes), Returned(DecodeResult(dec)),
                    dec.bytes))
    /\ dec' = NoFrame
    /\ UNCHANGED <<enc, heap, tables, writes, threads>>

\* encode(str, options) is called on a fresh input
EncodeCall ==
    /\ Idle
    /\ history = <<>>
    /\ \E str \in EncodeInputs, options \in Options :
           /\ enc' = EncodeFrame(str, options)
           /\ heap' = Allocate(heap, NewBuffer, NewUint8Array(Len(str)))
    /\ UNCHANGED <<dec, history, tables, writes, threads>>

\* encode(decoded, options): the caller encodes what decode returned
EncodeDecoded ==
    /\ Idle
    /\ Len(history) < MaxCalls
    /\ LastReturned("decode")
    /\ \E options \in Options :
           LET str == history[Len(history)].outcome.value IN
           /\ enc' = EncodeFrame(str, options)
           /\ heap' = Allocate(heap, NewBuffer, NewUint8Array(Len(str)))
    /\ UNCHANGED <<dec, history, tables, writes, threads>>

\* one iteration of encode's loop that stores a byte
EncodeIterate ==
    /\ enc.fn = "encode"
    /\ enc.i < enc.length
    /\ LET codePoint == CodePointAt(enc.str, enc.i)
           step == EncodeElement(codePoint, enc.mode) IN
       /\ ~step.throws
       /\ heap' = [heap EXCEPT ![enc.bytes.buffer][enc.byteIndex + 1] =
                                    ToUint8(step.value)]
       /\ enc' = [enc EXCEPT !.byteIndex = enc.byteIndex + 1,
                             !.i = NextIndex(enc.i, codePoint)]
    /\ UNCHANGED <<dec, history, tables, writes, threads>>

\* variant: the loop stops at the unencodable character and the call
\* returns what it wrote so far
EncodeThrow_ReturnsPartial ==
    /\ enc.fn = "encode"
    /\ enc.i < enc.length
    /\ LET codePoint == CodePointAt(enc.str, enc.i)
           step == EncodeElement(codePoint, enc.mode) IN
       /\ step.throws
       /\ history' = Append(history,
              Finished(enc, enc.str, Returned(Read(heap, EncodeResult(enc))),
                       EncodeResult(enc)))
    /\ enc' = NoFrame
    /\ UNCHANGED <<dec, heap, tables, writes, threads>>

\* one iteration of encode's loop that throws: the call ends with the error
EncodeThrow ==
    /\ enc.fn = "encode"
    /\ enc.i < enc.length
    /\ LET codePoint == CodePointAt(enc.str, enc.i)
           step == EncodeElement(codePoint, enc.mode) IN
       /\ step.throws
       /\ history' = Append(history,
              Finished(enc, enc.str, Thrown(step.error), NoArray))
    /\ enc' = NoFrame
    /\ UNCHANGED <<dec, heap, tables, writes, threads>>

\* the loop is over: encode returns the bytes written
EncodeReturn ==
    /\ enc.fn = "encode"
    /\ enc.i >= enc.length
    /\ history' = Append(history,
           Finished(enc, enc.str, Returned(Read(heap, EncodeResult(enc))),
                    EncodeResult(enc)))
    /\ enc' = NoFrame
    /\ UNCHANGED <<dec, heap, tables, writes, threads>>

Next ==
    \/ DecodeCall
    \/ DecodeEncoded
    \/ DecodeIterate
    \/ DecodeThrow
    \/ DecodeReturn
    \/ EncodeCall
    \/ EncodeDecoded
    \/ EncodeIterate
    \/ EncodeThrow
    \/ EncodeReturn

Spec == Init /\ [][Next]_vars

(***************************************************************************)
(* Vocabulary of the properties.                                           *)
(***************************************************************************)
Calls == {history[k] : k \in DOMAIN history}

ReturnedBy(call) == call.outcome.kind = "return"
ThrownBy(call) == call.outcome.kind = "throw"

\* the 27 defined bytes of 0x80..0x9F, as the definition of Windows-1252 lists them
DefinedSpecialBytes == {128} \cup (130..140) \cup {142} \cup (145..156) \cup {158, 159}

\* the byte values that have a character
DefinedBytes == (0..127) \cup DefinedSpecialBytes \cup (160..255)

\* code points that have a byte
Encodable(c) ==
    \/ c >= 0 /\ c <= 127
    \/ c >= 160 /\ c <= 255
    \/ c \in SpecialCodePoints

IsSurrogate(u) == u >= 55296 /\ u <= 57343

AllIn(s, S) == \A j \in DOMAIN s : s[j] \in S

(***************************************************************************)
(* C1  Byte round trip: a byte sequence without 0x81, 0x8D, 0x8F, 0x90 and *)
(* 0x9D, decoded with the default mode, decodes without error, and         *)
(* encoding the decoded string with the default mode returns exactly the   *)
(* original sequence.                                                      *)
(***************************************************************************)
C1_ByteRoundTrip ==
    \A k \in DOMAIN history :
        (/\ history[k].fn = "decode"
         /\ history[k].options = "undefined"
         /\ AllIn(history[k].input, (0..255) \ {129, 141, 143, 144, 157}))
        => /\ ReturnedBy(history[k])
           /\ (k < Len(history) /\ history[k + 1].options = "undefined")
              => history[k + 1].outcome = Returned(history[k].input)

\* a two-byte sequence with a byte of the special zone went through both calls
C1_Witness ==
    /\ Len(history) >= 2
    /\ history[1].fn = "decode"
    /\ history[1].options = "undefined"
    /\ history[1].input = <<128, 233>>
    /\ history[2].fn = "encode"
    /\ history[2].options = "undefined"
    /\ ReturnedBy(history[2])

(***************************************************************************)
(* C2  String round trip: a string of ASCII, Latin-1 supplement and the 27 *)
(* special code points encodes in fatal mode without error, and decoding   *)
(* the bytes gives the string back.                                        *)
(***************************************************************************)
C2_StringRoundTrip ==
    \A k \in DOMAIN history :
        (/\ history[k].fn = "encode"
         /\ history[k].mode = "fatal"
         /\ AllIn(history[k].input, (0..127) \cup (160..255) \cup SpecialCodePoints))
        => /\ ReturnedBy(history[k])
           /\ k < Len(history)
              => history[k + 1].outcome = Returned(history[k].input)

\* the dagger U+2020 was encoded in fatal mode and decoded again
C2_Witness ==
    /\ Len(history) >= 2
    /\ history[1].fn = "encode"
    /\ history[1].mode = "fatal"
    /\ history[1].input = <<8224>>
    /\ history[2].fn = "decode"
    /\ ReturnedBy(history[2])

\* the code points of a string, as iterating it by code point gives them
RECURSIVE CodePointsFrom(_, _)
CodePointsFrom(str, i) ==
    IF i >= Len(str)
    THEN <<>>
    ELSE LET first == str[i + 1]
             paired == /\ first >= 55296 /\ first <= 56319
                       /\ i + 2 <= Len(str)
                       /\ str[i + 2] >= 56320 /\ str[i + 2] <= 57343
         IN IF paired
            THEN <<65536 + (first - 55296) * 1024 + (str[i + 2] - 56320)>>
                     \o CodePointsFrom(str, i + 2)
            ELSE <<first>> \o CodePointsFrom(str, i + 1)

CodePoints(str) == CodePointsFrom(str, 0)

(***************************************************************************)
(* C3  Total coverage: decode of any single byte 0..255 in replacement     *)
(* mode returns, and what it returns is exactly one code point.            *)
(***************************************************************************)
C3_TotalCoverage ==
    \A call \in Calls :
        (/\ call.fn = "decode"
         /\ call.mode = "replacement"
         /\ Len(call.input) = 1
         /\ call.input[1] \in 0..255)
        => /\ ReturnedBy(call)
           /\ Len(CodePoints(call.outcome.value)) = 1

\* the undefined byte 0x90 was decoded in replacement mode
C3_Witness ==
    \E call \in Calls :
        /\ call.fn = "decode"
        /\ call.mode = "replacement"
        /\ call.input = <<144>>
        /\ ReturnedBy(call)

(***************************************************************************)
(* C4  Zone identity: decode of a single byte b of 0x00..0x7F or           *)
(* 0xA0..0xFF returns the one code point b, in either mode.                *)
(***************************************************************************)
C4_ZoneIdentity ==
    \A call \in Calls :
        (/\ call.fn = "decode"
         /\ Len(call.input) = 1
         /\ call.input[1] \in (0..127) \cup (160..255))
        => call.outcome = Returned(<<call.input[1]>>)

\* the first byte of the Latin-1 zone, 0xA0, was decoded in fatal mode
C4_Witness ==
    \E call \in Calls :
        /\ call.fn = "decode"
        /\ call.mode = "fatal"
        /\ call.input = <<160>>
        /\ ReturnedBy(call)

(***************************************************************************)
(* C5  Special-zone decoding: decode of each of the 27 defined bytes of    *)
(* 0x80..0x9F returns the code point the reference table lists for it      *)
(* (0x80 -> U+20AC, 0x99 -> U+2122, 0x9F -> U+0178), in either mode.       *)
(***************************************************************************)
C5_SpecialZone ==
    /\ DOMAIN Windows1252Reference = DefinedSpecialBytes
    /\ \A call \in Calls :
        (/\ call.fn = "decode"
         /\ Len(call.input) = 1
         /\ call.input[1] \in DefinedSpecialBytes)
        => /\ call.outcome = Returned(<<Windows1252Reference[call.input[1]]>>)
           /\ call.input[1] = 128 => call.outcome.value = <<8364>>
           /\ call.input[1] = 153 => call.outcome.value = <<8482>>
           /\ call.input[1] = 159 => call.outcome.value = <<376>>

\* the double dagger byte 0x87 was decoded in fatal mode
C5_Witness ==
    \E call \in Calls :
        /\ call.fn = "decode"
        /\ call.mode = "fatal"
        /\ call.input = <<135>>
        /\ ReturnedBy(call)

\* reading a number back from its digits
UpperHexDigits == <<"0", "1", "2", "3", "4", "5", "6", "7", "8", "9",
                    "A", "B", "C", "D", "E", "F">>

DigitValue(c) == (CHOOSE d \in 1..16 : UpperHexDigits[d] = c) - 1

IsDigits(s, radix) ==
    /\ Len(s) >= 1
    /\ \A j \in DOMAIN s : \E d \in 1..radix : UpperHexDigits[d] = s[j]

RECURSIVE ValueOfDigits(_, _)
ValueOfDigits(s, radix) ==
    IF s = <<>>
    THEN 0
    ELSE ValueOfDigits(SubSeq(s, 1, Len(s) - 1), radix) * radix + DigitValue(s[Len(s)])

\* s spells the integer v in decimal, as JavaScript prints a number
SpellsDecimal(s, v) ==
    LET digits == IF v < 0 THEN Tail(s) ELSE s
        size == IF v < 0 THEN 0 - v ELSE v
    IN /\ Len(s) >= 1
       /\ v < 0 => s[1] = "-"
       /\ IsDigits(digits, 10)
       /\ (Len(digits) > 1 => digits[1] # "0")
       /\ ValueOfDigits(digits, 10) = size

\* s spells v in uppercase hexadecimal with at least `width` digits and no
\* digit more than v needs beyond them
SpellsUpperHex(s, v, width) ==
    /\ IsDigits(s, 16)
    /\ Len(s) >= width
    /\ (Len(s) > width => s[1] # "0")
    /\ ValueOfDigits(s, 16) = v

HasText(call, text) ==
    /\ ThrownBy(call)
    /\ call.outcome.error.name = "Error"
    /\ call.outcome.error.message.text = text

\* no element of the input before position j is one decode rejects
NothingInvalidBefore(input, j) ==
    \A h \in 1..(j - 1) : input[h] \in DefinedBytes

(***************************************************************************)
(* C6  Undefined-byte set: of the bytes 0x80..0x9F, decode in fatal mode   *)
(* throws for exactly 0x81, 0x8D, 0x8F, 0x90 and 0x9D; the error is the    *)
(* undefined-byte error and names the byte as 0x and two uppercase         *)
(* hexadecimal digits; in replacement mode each of the five gives U+FFFD.  *)
(***************************************************************************)
C6_UndefinedBytes ==
    \A call \in Calls :
        call.fn = "decode" =>
        /\ (Len(call.input) = 1 /\ call.input[1] \in 128..159 /\ call.mode = "fatal")
           => (ThrownBy(call) <=> call.input[1] \in {129, 141, 143, 144, 157})
        /\ \A j \in DOMAIN call.input :
              (call.input[j] \in {129, 141, 143, 144, 157}) =>
              /\ (call.mode = "fatal" /\ NothingInvalidBefore(call.input, j))
                 => /\ HasText(call, "Invalid Windows-1252 byte: 0x${hex}")
                    /\ SpellsUpperHex(call.outcome.error.message.hex, call.input[j], 2)
                    /\ Len(call.outcome.error.message.hex) = 2
              /\ call.mode = "replacement"
                 => /\ ReturnedBy(call)
                    /\ Len(call.outcome.value) = Len(call.input)
                    /\ call.outcome.value[j] = 65533

\* 0x8D, whose hexadecimal form has a letter, was decoded in fatal mode
C6_Witness ==
    \E call \in Calls :
        /\ call.fn = "decode"
        /\ call.mode = "fatal"
        /\ call.input = <<141>>
        /\ ThrownBy(call)

(***************************************************************************)
(* C7  Out-of-range input: an element v < 0 or v > 255 makes decode in     *)
(* fatal mode throw the invalid-byte-value error, which reports v and the  *)
(* range 0-255, when decode reaches it; in replacement mode the element    *)
(* gives U+FFFD and never the character of v modulo 256.                   *)
(***************************************************************************)
C7_OutOfRange ==
    \A call \in Calls :
        call.fn = "decode" =>
        \A j \in DOMAIN call.input :
            (call.input[j] < 0 \/ call.input[j] > 255) =>
            /\ call.mode = "fatal" => ThrownBy(call)
            /\ (call.mode = "fatal" /\ NothingInvalidBefore(call.input, j))
               => /\ HasText(call, "Invalid byte value: ${byte} (must be 0-255)")
                  /\ SpellsDecimal(call.outcome.error.message.byte, call.input[j])
            /\ call.mode = "replacement"
               => /\ ReturnedBy(call)
                  /\ Len(call.outcome.value) = Len(call.input)
                  /\ call.outcome.value[j] = 65533
                  /\ call.outcome.value[j] # call.input[j] % 256

\* 321, which is 'A' modulo 256, was decoded in replacement mode
C7_Witness ==
    \E call \in Calls :
        /\ call.fn = "decode"
        /\ call.mode = "replacement"
        /\ call.input = <<321>>
        /\ ReturnedBy(call)

\* the byte b that the decode table maps to the code point c
InDecodeTable(c) == \E b \in DOMAIN WINDOWS_1252_MAP : WINDOWS_1252_MAP[b] = c
ByteOfDecodeTable(c) == CHOOSE b \in DOMAIN WINDOWS_1252_MAP : WINDOWS_1252_MAP[b] = c

NoSurrogates(str) == \A j \in DOMAIN str : ~IsSurrogate(str[j])

(***************************************************************************)
(* C8  Encode mapping: encode emits the byte c for a code point c < 0x80,  *)
(* the byte c for 0xA0 <= c <= 0xFF, and for one of the 27 special code    *)
(* points the byte that the decode table maps to it, in both modes.        *)
(***************************************************************************)
C8_EncodeMapping ==
    \A call \in Calls :
        (call.fn = "encode" /\ NoSurrogates(call.input)) =>
        /\ (\A j \in DOMAIN call.input :
               call.input[j] < 128 \/ call.input[j] \in 160..255
                   \/ InDecodeTable(call.input[j]))
           => ReturnedBy(call)
        /\ ReturnedBy(call) =>
           /\ Len(call.outcome.value) = Len(call.input)
           /\ \A j \in DOMAIN call.input :
                 LET c == call.input[j] IN
                 /\ c < 128 => call.outcome.value[j] = c
                 /\ (c >= 160 /\ c <= 255) => call.outcome.value[j] = c
                 /\ InDecodeTable(c) => call.outcome.value[j] = ByteOfDecodeTable(c)

\* U+017E, the special code point of byte 0x9E, was encoded
C8_Witness ==
    \E call \in Calls :
        /\ call.fn = "encode"
        /\ call.input = <<382>>
        /\ ReturnedBy(call)

(***************************************************************************)
(* C9  Unencodable code points: a code point that is not ASCII, not in     *)
(* U+00A0..U+00FF and not one of the 27 special code points (so all of     *)
(* U+0080..U+009F, the others from U+0100 up, and those above U+FFFF)      *)
(* makes encode throw the unencodable-character error in fatal mode and    *)
(* gives exactly the byte 0x3F in replacement mode.                        *)
(***************************************************************************)
C9_Unencodable ==
    \A call \in Calls :
        call.fn = "encode" =>
        /\ (LET points == CodePoints(call.input) IN
               Len(points) = 1 /\ ~Encodable(points[1]))
           => /\ call.mode = "fatal" =>
                 HasText(call,
                     "Character '${char}' (U+${hex}) cannot be encoded in Windows-1252")
              /\ call.mode = "replacement" => call.outcome = Returned(<<63>>)
        /\ (NoSurrogates(call.input)
               /\ \E j \in DOMAIN call.input : ~Encodable(call.input[j]))
           => /\ call.mode = "fatal" =>
                 HasText(call,
                     "Character '${char}' (U+${hex}) cannot be encoded in Windows-1252")
              /\ call.mode = "replacement" =>
                 /\ ReturnedBy(call)
                 /\ Len(call.outcome.value) = Len(call.input)
                 /\ \A j \in DOMAIN call.input :
                       ~Encodable(call.input[j]) => call.outcome.value[j] = 63

\* the control code U+0081 was encoded in replacement mode
C9_Witness ==
    \E call \in Calls :
        /\ call.fn = "encode"
        /\ call.mode = "replacement"
        /\ call.input = <<129>>
        /\ ReturnedBy(call)

\* a surrogate pair starts at position j (1-based) of the string
PairAt(str, j) ==
    /\ j + 1 <= Len(str)
    /\ str[j] >= 55296 /\ str[j] <= 56319
    /\ str[j + 1] >= 56320 /\ str[j + 1] <= 57343

\* how many surrogate pairs start before position j
PairsBefore(str, j) == Cardinality({h \in 1..(j - 1) : PairAt(str, h)})

\* the byte replacement mode gives for the unit u when it starts no pair
ReplacementByteOf(u) ==
    IF u < 128 \/ (u >= 160 /\ u <= 255) THEN u
    ELSE IF InDecodeTable(u) THEN ByteOfDecodeTable(u)
    ELSE 63

(***************************************************************************)
(* C10  Surrogate pairs: a high surrogate immediately followed by a low    *)
(* surrogate is consumed as one code point >= U+10000 with one decision:   *)
(* in replacement mode the pair gives exactly one byte 0x3F and the unit   *)
(* after the pair is the next one processed; in fatal mode the error       *)
(* raised for the pair carries both units as one character.                *)
(***************************************************************************)
C10_SurrogatePairs ==
    /\ \A call \in Calls :
        call.fn = "encode" =>
        \A j \in DOMAIN call.input :
            PairAt(call.input, j) =>
            LET out == j - PairsBefore(call.input, j) IN
            /\ call.mode = "replacement" =>
               /\ ReturnedBy(call)
               /\ Len(call.outcome.value)
                      = Len(call.input) - PairsBefore(call.input, Len(call.input))
               /\ call.outcome.value[out] = 63
               /\ j + 2 <= Len(call.input) =>
                     call.outcome.value[out + 1]
                         = IF PairAt(call.input, j + 2)
                           THEN 63
                           ELSE ReplacementByteOf(call.input[j + 2])
            /\ (call.mode = "fatal"
                   /\ \A h \in 1..(j - 1) : Encodable(call.input[h]))
               => /\ ThrownBy(call)
                  /\ call.outcome.error.message.char
                         = <<call.input[j], call.input[j + 1]>>
    \* the loop never stands on the low half of a pair
    /\ (enc.fn = "encode" /\ enc.i > 0 /\ enc.i < enc.length)
           => ~PairAt(enc.str, enc.i)

\* U+1F60A as its two halves, then 'A': encoded in replacement mode
C10_Witness ==
    \E call \in Calls :
        /\ call.fn = "encode"
        /\ call.mode = "replacement"
        /\ call.input = <<55357, 56842, 65>>
        /\ call.outcome = Returned(<<63, 65>>)

\* the unit at position j (1-based) is a surrogate that belongs to no pair
LoneSurrogateAt(str, j) ==
    /\ IsSurrogate(str[j])
    /\ ~PairAt(str, j)
    /\ ~(j > 1 /\ PairAt(str, j - 1))

(***************************************************************************)
(* C11  Lone surrogates: an unpaired high or low surrogate is one          *)
(* unencodable code point.  It takes one 16-bit unit and gives one         *)
(* outcome: in replacement mode one byte 0x3F at its own place, with the   *)
(* unit after it processed next on its own (high, high, low gives two      *)
(* bytes); in fatal mode, when nothing before it is unencodable, the error *)
(* for that one unit.                                                      *)
(***************************************************************************)
C11_LoneSurrogates ==
    \A call \in Calls :
        call.fn = "encode" =>
        \A j \in DOMAIN call.input :
            LoneSurrogateAt(call.input, j) =>
            LET out == j - PairsBefore(call.input, j) IN
            /\ call.mode = "replacement" =>
               /\ ReturnedBy(call)
               /\ Len(call.outcome.value)
                      = Len(call.input) - PairsBefore(call.input, Len(call.input))
               /\ call.outcome.value[out] = 63
               /\ j + 1 <= Len(call.input) =>
                     call.outcome.value[out + 1]
                         = IF PairAt(call.input, j + 1)
                           THEN 63
                           ELSE ReplacementByteOf(call.input[j + 1])
            /\ (call.mode = "fatal"
                   /\ \A h \in 1..(j - 1) : Encodable(call.input[h]))
               => /\ HasText(call,
                      "Character '${char}' (U+${hex}) cannot be encoded in Windows-1252")
                  /\ call.outcome.error.message.char = <<call.input[j]>>

\* high, high, low was encoded in replacement mode and gave two bytes
C11_Witness ==
    \E call \in Calls :
        /\ call.fn = "encode"
        /\ call.mode = "replacement"
        /\ call.input = <<55357, 55357, 56842>>
        /\ call.outcome = Returned(<<63, 63>>)

\* the code point replacement-mode decode gives for the element v
ReplacementCodePointOf(v) ==
    IF v \in (0..127) \cup (160..255) THEN v
    ELSE IF v \in DefinedSpecialBytes THEN Windows1252Reference[v]
    ELSE 65533

(***************************************************************************)
(* C12  Decode length: in replacement mode decode returns, for any input   *)
(* (undefined bytes and out-of-range values included), exactly as many     *)
(* code points as the input has elements, the i-th for the i-th element.   *)
(***************************************************************************)
C12_DecodeLength ==
    \A call \in Calls :
        (call.fn = "decode" /\ call.mode = "replacement") =>
        /\ ReturnedBy(call)
        /\ Len(call.outcome.value) = Len(call.input)
        /\ Len(CodePoints(call.outcome.value)) = Len(call.input)
        /\ \A j \in DOMAIN call.input :
              call.outcome.value[j] = ReplacementCodePointOf(call.input[j])

\* an undefined byte, an out-of-range value and a letter were decoded
C12_Witness ==
    \E call \in Calls :
        /\ call.fn = "decode"
        /\ call.mode = "replacement"
        /\ call.input = <<129, 300, 65>>
        /\ ReturnedBy(call)

(***************************************************************************)
(* C13  Encode length: in replacement mode encode returns as many bytes as *)
(* the input has code points when iterated by code point (a pair once, a   *)
(* lone surrogate once), which is at most the number of 16-bit units.      *)
(***************************************************************************)
C13_EncodeLength ==
    \A call \in Calls :
        (call.fn = "encode" /\ call.mode = "replacement") =>
        /\ ReturnedBy(call)
        /\ Len(call.outcome.value) = Len(CodePoints(call.input))
        /\ Len(call.outcome.value) <= Len(call.input)
        /\ call.held.length = Len(call.outcome.value)

\* a lone low surrogate and then a pair: three units, two bytes
C13_Witness ==
    \E call \in Calls :
        /\ call.fn = "encode"
        /\ call.mode = "replacement"
        /\ call.input = <<56842, 55357, 56842>>
        /\ Len(call.outcome.value) = 2

\* the input of the call has a unit the function rejects
HasInvalidUnit(call) ==
    IF call.fn = "decode"
    THEN \E j \in DOMAIN call.input : call.input[j] \notin DefinedBytes
    ELSE LET points == CodePoints(call.input) IN
         \E j \in DOMAIN points : ~Encodable(points[j])

(***************************************************************************)
(* C14  Fatal-mode atomicity: a call in fatal mode ends in one of two      *)
(* ways.  It returns the complete converted sequence, which happens        *)
(* exactly when no unit of the input is invalid; or it throws, and then    *)
(* the caller has an error and nothing else: no value, no array, and the   *)
(* call's frame is gone.                                                   *)
(***************************************************************************)
C14_FatalAtomicity ==
    /\ \A call \in Calls :
        call.mode = "fatal" =>
        /\ ReturnedBy(call) <=> ~HasInvalidUnit(call)
        /\ ThrownBy(call) <=> HasInvalidUnit(call)
        /\ ReturnedBy(call) =>
           /\ DOMAIN call.outcome = {"kind", "value"}
           /\ IF call.fn = "decode"
              THEN /\ Len(call.outcome.value) = Len(call.input)
                   /\ \A j \in DOMAIN call.input :
                         call.outcome.value[j] = ReplacementCodePointOf(call.input[j])
              ELSE LET points == CodePoints(call.input) IN
                   /\ Len(call.outcome.value) = Len(points)
                   /\ \A j \in DOMAIN call.outcome.value :
                         call.outcome.value[j] = ReplacementByteOf(points[j])
        /\ ThrownBy(call) =>
           /\ DOMAIN call.outcome = {"kind", "error"}
           /\ call.fn = "encode" => call.held = NoArray
    /\ (history # <<>> /\ ThrownBy(history[Len(history)])) => Idle

\* a fatal-mode encode threw at its third unit, after writing two bytes
C14_Witness ==
    \E call \in Calls :
        /\ call.fn = "encode"
        /\ call.mode = "fatal"
        /\ call.input = <<65, 233, 129>>
        /\ ThrownBy(call)

\* the first position of the sequence whose element fails the test
FirstInvalid(s, Valid(_)) ==
    CHOOSE j \in DOMAIN s : ~Valid(s[j]) /\ \A h \in 1..(j - 1) : Valid(s[h])

IsDefinedByte(v) == v \in DefinedBytes

(***************************************************************************)
(* C15  First invalid unit wins: the error of a fatal-mode call is the one *)
(* for the leftmost invalid unit, with that unit's kind and value          *)
(* ([0x81, 300] reports the undefined byte 0x81, [300, 0x81] the invalid   *)
(* value 300; encode reports the first unencodable character), and the     *)
(* loop never goes past an invalid unit.                                   *)
(***************************************************************************)
C15_FirstInvalidWins ==
    /\ \A call \in Calls :
        (call.mode = "fatal" /\ HasInvalidUnit(call)) =>
        IF call.fn = "decode"
        THEN LET v == call.input[FirstInvalid(call.input, IsDefinedByte)] IN
             IF v < 0 \/ v > 255
             THEN /\ HasText(call, "Invalid byte value: ${byte} (must be 0-255)")
                  /\ SpellsDecimal(call.outcome.error.message.byte, v)
             ELSE /\ HasText(call, "Invalid Windows-1252 byte: 0x${hex}")
                  /\ SpellsUpperHex(call.outcome.error.message.hex, v, 2)
        ELSE LET points == CodePoints(call.input)
                 c == points[FirstInvalid(points, Encodable)] IN
             /\ HasText(call,
                    "Character '${char}' (U+${hex}) cannot be encoded in Windows-1252")
             /\ CodePoints(call.outcome.error.message.char) = <<c>>
             /\ SpellsUpperHex(call.outcome.error.message.hex, c, 4)
    /\ (dec.fn = "decode" /\ dec.mode = "fatal") =>
           \A h \in 1..dec.i : heap[dec.bytes.buffer][h] \in DefinedBytes
    /\ (enc.fn = "encode" /\ enc.mode = "fatal") =>
           LET read == CodePoints(SubSeq(enc.str, 1, enc.i)) IN
           \A h \in DOMAIN read : Encodable(read[h])

\* [300, 0x81] was decoded in fatal mode
C15_Witness ==
    \E call \in Calls :
        /\ call.fn = "decode"
        /\ call.mode = "fatal"
        /\ call.input = <<300, 129>>
        /\ ThrownBy(call)

(***************************************************************************)
(* C16  Default modes are opposite: decode without a mode runs as in       *)
(* replacement mode (it returns, an undefined byte giving U+FFFD); encode  *)
(* without a mode runs as in fatal mode (it throws exactly when the input  *)
(* has an unencodable character).                                          *)
(***************************************************************************)
C16_DefaultModes ==
    \A call \in Calls :
        call.options = "undefined" =>
        /\ call.fn = "decode" =>
           /\ call.mode = "replacement"
           /\ ReturnedBy(call)
           /\ \A j \in DOMAIN call.input :
                 call.input[j] \in {129, 141, 143, 144, 157}
                     => call.outcome.value[j] = 65533
        /\ call.fn = "encode" =>
           /\ call.mode = "fatal"
           /\ ThrownBy(call) <=> HasInvalidUnit(call)
           /\ ThrownBy(call) =>
                 HasText(call,
                     "Character '${char}' (U+${hex}) cannot be encoded in Windows-1252")

\* encode was called without a mode on a string with U+0081
C16_Witness ==
    \E call \in Calls :
        /\ call.fn = "encode"
        /\ call.options = "undefined"
        /\ call.input = <<65, 129>>
        /\ ThrownBy(call)

(***************************************************************************)
(* C17  Table inverse: the decode table and the encode table hold 27       *)
(* entries each; for every (byte, code point) of the decode table the      *)
(* encode table holds (code point, byte); the encode table holds nothing   *)
(* else; no two bytes map to the same code point.                          *)
(***************************************************************************)
C17_TableInverse ==
    LET decodeTable == tables.WINDOWS_1252_MAP
        encodeTable == tables.UNICODE_TO_WINDOWS_1252
    IN /\ Cardinality(DOMAIN decodeTable) = 27
       /\ Cardinality(DOMAIN encodeTable) = 27
       /\ \A b \in DOMAIN decodeTable :
             /\ decodeTable[b] \in DOMAIN encodeTable
             /\ encodeTable[decodeTable[b]] = b
       /\ \A c \in DOMAIN encodeTable :
             /\ encodeTable[c] \in DOMAIN decodeTable
             /\ decodeTable[encodeTable[c]] = c
       /\ Cardinality({decodeTable[b] : b \in DOMAIN decodeTable}) = 27

\* both tables were read: 0x9E was decoded and the result encoded
C17_Witness ==
    /\ Len(history) >= 2
    /\ history[1].fn = "decode"
    /\ history[1].input = <<158>>
    /\ history[2].fn = "encode"
    /\ history[2].outcome = Returned(<<158>>)

(***************************************************************************)
(* C18  Unencodable-character message: the fatal-mode encode error gives   *)
(* the code point as U+ and its uppercase hexadecimal digits, padded with  *)
(* zeros to four and never cut (U+0081, U+0100, U+1F60A); for a surrogate  *)
(* pair the code point is the combined one, not a half.                    *)
(***************************************************************************)
C18_MessageFormat ==
    \A call \in Calls :
        (call.fn = "encode" /\ ThrownBy(call)) =>
        LET points == CodePoints(call.input)
            c == points[FirstInvalid(points, Encodable)]
            hex == call.outcome.error.message.hex
        IN /\ call.outcome.error.message.text
                  = "Character '${char}' (U+${hex}) cannot be encoded in Windows-1252"
           /\ SpellsUpperHex(hex, c, 4)
           /\ c = 129 => hex = <<"0", "0", "8", "1">>
           /\ c = 256 => hex = <<"0", "1", "0", "0">>
           /\ c = 128522 => hex = <<"1", "F", "6", "0", "A">>
           /\ \A j \in DOMAIN call.input :
                 (PairAt(call.input, j)
                     /\ \A h \in 1..(j - 1) : Encodable(call.input[h]))
                 => c = 65536 + (call.input[j] - 55296) * 1024
                          + (call.input[j + 1] - 56320)

\* U+1F60A, as its two halves, was encoded in fatal mode
C18_Witness ==
    \E call \in Calls :
        /\ call.fn = "encode"
        /\ call.input = <<55357, 56842>>
        /\ ThrownBy(call)

(***************************************************************************)
(* The caller of the array tests: it may call encode again with the input  *)
(* of an earlier encode call, and it may store into an array it holds (the *)
(* array it passed to decode, the array encode returned).                  *)
(***************************************************************************)
\* the value the caller stores: bytes[0] = 0x42, encoded1[0] = 0x42
StoredValue == 66

\* the elements of those runs' first inputs: ASCII, a special byte and its
\* code point, a value neither function accepts, a Latin-1 one
ArrayUnits == {65, 128, 129, 233, 8364}

ArrayInputs == SeqsOf(ArrayUnits, 0, MaxArrayLen)

\* the run started from one of those inputs
ArrayRun == history # <<>> /\ history[1].input \in ArrayInputs

\* encode(str, options) again, for the str and options of an earlier call
EncodeRepeat ==
    /\ Idle
    /\ ArrayRun
    /\ Len(history) < MaxCalls
    /\ \E k \in DOMAIN history :
           /\ history[k].fn = "encode"
           /\ enc' = EncodeFrame(history[k].input, history[k].options)
           /\ heap' = Allocate(heap, NewBuffer,
                               NewUint8Array(Len(history[k].input)))
    /\ UNCHANGED <<dec, history, tables, writes, threads>>

\* array[index] = StoredValue, for an array the caller holds
CallerWrite ==
    /\ Idle
    /\ ArrayRun
    /\ Len(writes) < MaxWrites
    /\ \E k \in DOMAIN history :
           \E index \in 0..(history[k].held.length - 1) :
               /\ heap' = [heap EXCEPT ![history[k].held.buffer][index + 1] =
                                           StoredValue]
               /\ writes' = Append(writes,
                      [array |-> history[k].held, index |-> index,
                       value |-> StoredValue])
    /\ UNCHANGED <<dec, enc, history, tables, threads>>

NextArrays ==
    \/ Next
    \/ EncodeRepeat
    \/ CallerWrite

SpecArrays == Init /\ [][NextArrays]_vars

(***************************************************************************)
(* C19  No side effects: no step of a decode or encode call, whatever its  *)
(* mode and outcome, changes an element of an array that is or was the     *)
(* input of decode, nor an entry of either lookup table; and no step, the  *)
(* caller's later stores into the input array included, changes what a     *)
(* finished call returned.                                                 *)
(***************************************************************************)
C19_NoSideEffects ==
    [][/\ tables' = tables
       /\ tables.WINDOWS_1252_MAP = WINDOWS_1252_MAP
       /\ tables.UNICODE_TO_WINDOWS_1252 = UNICODE_TO_WINDOWS_1252
       /\ writes' = writes =>
             /\ \A k \in DOMAIN history :
                   history[k].fn = "decode" =>
                       Read(heap', history[k].held) = Read(heap, history[k].held)
             /\ dec.fn = "decode" => Read(heap', dec.bytes) = Read(heap, dec.bytes)
       /\ \A k \in DOMAIN history : history'[k] = history[k]
      ]_vars

\* decode returned for [0x80, 0x41], then the caller stored 0x42 at index 0
C19_Witness ==
    /\ history # <<>>
    /\ history[1].fn = "decode"
    /\ history[1].outcome = Returned(<<8364, 65>>)
    /\ writes # <<>>
    /\ Read(heap, history[1].held) = <<66, 65>>

\* the elements after the caller's stores into the storage `buffer`
RECURSIVE AfterWrites(_, _, _)
AfterWrites(elements, buffer, stores) ==
    IF stores = <<>>
    THEN elements
    ELSE LET w == Head(stores)
             now == IF w.array.buffer = buffer /\ w.index < Len(elements)
                    THEN [elements EXCEPT ![w.index + 1] = w.value]
                    ELSE elements
         IN AfterWrites(now, buffer, Tail(stores))

(***************************************************************************)
(* C20  Independent encode results: the array an encode call returns       *)
(* shares its storage with the array of no other encode call, earlier or   *)
(* later, even for the same input; its elements are those returned, but    *)
(* for the stores the caller made into that very array.                    *)
(***************************************************************************)
C20_IndependentResults ==
    /\ \A k, l \in DOMAIN history :
          (/\ k # l
           /\ history[k].fn = "encode" /\ ReturnedBy(history[k])
           /\ history[l].fn = "encode" /\ ReturnedBy(history[l]))
          => history[k].held.buffer # history[l].held.buffer
    /\ \A k \in DOMAIN history :
          (history[k].fn = "encode" /\ ReturnedBy(history[k])) =>
          /\ history[k].held.length <= Len(heap[history[k].held.buffer])
          /\ Read(heap, history[k].held)
                = AfterWrites(history[k].outcome.value, history[k].held.buffer, writes)

\* encode returned twice for the same string, and the caller stored 0x42 at
\* index 0 of the first array: the second array holds what was returned
C20_Witness ==
    /\ Len(history) >= 2
    /\ history[1].fn = "encode"
    /\ history[2].fn = "encode"
    /\ history[1].input = <<65, 8364>>
    /\ history[2].input = <<65, 8364>>
    /\ writes # <<>>
    /\ Read(heap, history[1].held) = <<66, 128>>
    /\ Read(heap, history[2].held) = <<65, 128>>

(***************************************************************************)
(* Calls running side by side: up to MaxThreads calls are started, each    *)
(* with its own frame, and the steps of their loops are taken in any       *)
(* order.  The frames share the heap and the two tables.                   *)
(***************************************************************************)
\* calls started side by side
MaxThreads == 2

\* decode's inputs there: nothing, a valid array, an undefined byte, an
\* invalid value after a valid byte
ThreadDecodeInputs == {<<>>, <<65, 128>>, <<129>>, <<65, 300>>}

\* encode's inputs there: '', valid strings, U+1F60A, an unencodable
\* character after a valid one
ThreadEncodeInputs == {<<>>, <<65>>, <<65, 8364>>, <<55357, 56842>>, <<233, 129>>}

\* the thread is still inside its call
Running(thread) == "outcome" \notin DOMAIN thread

\* a thread calls decode(bytes, options)
ThreadDecodeCall ==
    /\ Len(threads) < MaxThreads
    /\ \E bytes \in ThreadDecodeInputs, options \in Options :
           /\ heap' = Append(heap, bytes)
           /\ threads' = Append(threads,
                  DecodeFrame(View(Len(heap) + 1, Len(bytes)), options))
    /\ UNCHANGED <<dec, enc, history, tables, writes>>

\* a thread calls encode(str, options)
ThreadEncodeCall ==
    /\ Len(threads) < MaxThreads
    /\ \E str \in ThreadEncodeInputs, options \in Options :
           /\ threads' = Append(threads, EncodeFrame(str, options))
           /\ heap' = Allocate(heap, NewBuffer, NewUint8Array(Len(str)))
    /\ UNCHANGED <<dec, enc, history, tables, writes>>

\* variant: chars is one array of the module, so the store lands in the chars
\* of every decode call that is running
ThreadDecodeIterate_SharedChars ==
    /\ \E t \in DOMAIN threads :
          LET frame == threads[t] IN
          /\ Running(frame)
          /\ frame.fn = "decode"
          /\ frame.i < frame.length
          /\ LET step == DecodeElement(heap[frame.bytes.buffer][frame.i + 1],
                                       frame.mode)
                 at == frame.charIndex + 1
                 Stored(other) ==
                     IF Running(other) /\ other.fn = "decode" /\ at <= other.length
                     THEN [other EXCEPT !.chars[at] = step.value]
                     ELSE other
             IN /\ ~step.throws
                /\ threads' = [u \in DOMAIN threads |->
                       IF u = t
                       THEN [frame EXCEPT !.chars[at] = step.value,
                                          !.charIndex = frame.charIndex + 1,
                                          !.i = frame.i + 1]
                       ELSE Stored(threads[u])]
    /\ UNCHANGED <<dec, enc, history, heap, tables, writes>>

\* one iteration of a thread's decode loop that stores a code point
ThreadDecodeIterate ==
    /\ \E t \in DOMAIN threads :
          LET frame == threads[t] IN
          /\ Running(frame)
          /\ frame.fn = "decode"
          /\ frame.i < frame.length
          /\ LET step == DecodeElement(heap[frame.bytes.buffer][frame.i + 1],
                                       frame.mode) IN
             /\ ~step.throws
             /\ threads' = [threads EXCEPT
                    ![t] = [frame EXCEPT !.chars[frame.charIndex + 1] = step.value,
                                         !.charIndex = frame.charIndex + 1,
                                         !.i = frame.i + 1]]
    /\ UNCHANGED <<dec, enc, history, heap, tables, writes>>

\* one iteration of a thread's decode loop that throws
ThreadDecodeThrow ==
    /\ \E t \in DOMAIN threads :
          LET frame == threads[t] IN
          /\ Running(frame)
          /\ frame.fn = "decode"
          /\ frame.i < frame.length
          /\ LET step == DecodeElement(heap[frame.bytes.buffer][frame.i + 1],
                                       frame.mode) IN
             /\ step.throws
             /\ threads' = [threads EXCEPT
                    ![t] = Finished(frame, Read(heap, frame.bytes),
                                    Thrown(step.error), frame.bytes)]
    /\ UNCHANGED <<dec, enc, history, heap, tables, writes>>

\* a thread's decode loop is over: the call returns the string
ThreadDecodeReturn ==
    /\ \E t \in DOMAIN threads :
          LET frame == threads[t] IN
          /\ Running(frame)
          /\ frame.fn = "decode"
          /\ frame.i >= frame.length
          /\ threads' = [threads EXCEPT
                 ![t] = Finished(frame, Read(heap, frame.bytes),
                                 Returned(DecodeResult(frame)), frame.bytes)]
    /\ UNCHANGED <<dec, enc, history, heap, tables, writes>>

\* one iteration of a thread's encode loop that stores a byte
ThreadEncodeIterate ==
    /\ \E t \in DOMAIN threads :
          LET frame == threads[t] IN
          /\ Running(frame)
          /\ frame.fn = "encode"
          /\ frame.i < frame.length
          /\ LET codePoint == CodePointAt(frame.str, frame.i)
                 step == EncodeElement(codePoint, frame.mode) IN
             /\ ~step.throws
             /\ heap' = [heap EXCEPT ![frame.bytes.buffer][frame.byteIndex + 1] =
                                          ToUint8(step.value)]
             /\ threads' = [threads EXCEPT
                    ![t] = [frame EXCEPT !.byteIndex = frame.byteIndex + 1,
                                         !.i = NextIndex(frame.i, codePoint)]]
    /\ UNCHANGED <<dec, enc, history, tables, writes>>

\* one iteration of a thread's encode loop that throws
ThreadEncodeThrow ==
    /\ \E t \in DOMAIN threads :
          LET frame == threads[t] IN
          /\ Running(frame)
          /\ frame.fn = "encode"
          /\ frame.i < frame.length
          /\ LET codePoint == CodePointAt(frame.str, frame.i)
                 step == EncodeElement(codePoint, frame.mode) IN
             /\ step.throws
             /\ threads' = [threads EXCEPT
                    ![t] = Finished(frame, frame.str, Thrown(step.error), NoArray)]
    /\ UNCHANGED <<dec, enc, history, heap, tables, writes>>

\* a thread's encode loop is over: the call returns the bytes written
ThreadEncodeReturn ==
    /\ \E t \in DOMAIN threads :
          LET frame == threads[t] IN
          /\ Running(frame)
          /\ frame.fn = "encode"
          /\ frame.i >= frame.length
          /\ threads' = [threads EXCEPT
                 ![t] = Finished(frame, frame.str,
                                 Returned(Read(heap, EncodeResult(frame))),
                                 EncodeResult(frame))]
    /\ UNCHANGED <<dec, enc, history, heap, tables, writes>>

NextThreads ==
    \/ ThreadDecodeCall
    \/ ThreadEncodeCall
    \/ ThreadDecodeIterate
    \/ ThreadDecodeThrow
    \/ ThreadDecodeReturn
    \/ ThreadEncodeIterate
    \/ ThreadEncodeThrow
    \/ ThreadEncodeReturn

SpecThreads == Init /\ [][NextThreads]_vars

\* a decode call run from `frame` to its end with nothing beside it
RECURSIVE DecodeAlone(_, _)
DecodeAlone(frame, elements) ==
    IF frame.i >= frame.length
    THEN Returned(DecodeResult(frame))
    ELSE LET step == DecodeElement(elements[frame.i + 1], frame.mode) IN
         IF step.throws
         THEN Thrown(step.error)
         ELSE DecodeAlone([frame EXCEPT !.chars[frame.charIndex + 1] = step.value,
                                        !.charIndex = frame.charIndex + 1,
                                        !.i = frame.i + 1],
                          elements)

\* an encode call run from `frame` to its end with nothing beside it, `bytes`
\* the elements of its own array
RECURSIVE EncodeAlone(_, _)
EncodeAlone(frame, bytes) ==
    IF frame.i >= frame.length
    THEN Returned(SubSeq(bytes, 1, frame.byteIndex))
    ELSE LET codePoint == CodePointAt(frame.str, frame.i)
             step == EncodeElement(codePoint, frame.mode) IN
         IF step.throws
         THEN Thrown(step.error)
         ELSE EncodeAlone([frame EXCEPT !.byteIndex = frame.byteIndex + 1,
                                        !.i = NextIndex(frame.i, codePoint)],
                          [bytes EXCEPT ![frame.byteIndex + 1] = ToUint8(step.value)])

\* the outcome of the call when it is the only one
OutcomeAlone(fn, input, options) ==
    IF fn = "decode"
    THEN DecodeAlone(DecodeFrame(View(0, Len(input)), options), input)
    ELSE EncodeAlone(EncodeFrame(input, options), NewUint8Array(Len(input)))

(***************************************************************************)
(* C21  Call independence under interleaving: whatever calls run beside it *)
(* and in whatever order their steps are taken, a call that has finished   *)
(* returned the sequence, or threw the error, that the same call on the    *)
(* same input and mode gives when it runs alone.                           *)
(***************************************************************************)
C21_Independence ==
    \A t \in DOMAIN threads :
        ~Running(threads[t]) =>
        threads[t].outcome
            = OutcomeAlone(threads[t].fn, threads[t].input, threads[t].options)

\* an encode call started, ran and returned while an earlier encode call was
\* in the middle of its loop
C21_Witness ==
    /\ Len(threads) = 2
    /\ Running(threads[1])
    /\ threads[1].fn = "encode"
    /\ threads[1].i = 1
    /\ threads[1].length = 2
    /\ ~Running(threads[2])
    /\ threads[2].fn = "encode"
    /\ threads[2].input = <<65, 8364>>
    /\ threads[2].outcome = Returned(<<65, 128>>)

(***************************************************************************)
(* C22  Empty input: encode of the empty string and decode of the empty    *)
(* sequence return an empty sequence and throw nothing, in fatal mode, in  *)
(* replacement mode and with the mode left out.                            *)
(***************************************************************************)
C22_EmptyInput ==
    \A call \in Calls :
        call.input = <<>> =>
        /\ call.outcome = Returned(<<>>)
        /\ call.fn = "encode" => call.held.length = 0

\* encode('') returned in fatal mode and the caller decoded the empty array
\* it got, in fatal mode too
C22_Witness ==
    /\ Len(history) = 2
    /\ history[1].fn = "encode"
    /\ history[1].mode = "fatal"
    /\ history[1].input = <<>>
    /\ history[2].fn = "decode"
    /\ history[2].mode = "fatal"
    /\ history[2].input = <<>>
    /\ history[2].outcome = Returned(<<>>)

(***************************************************************************)
(* The caller of the splitting tests: after a call on a whole input it     *)
(* calls the same function, with the same options, on the first `mid`      *)
(* elements and then on the rest.                                          *)
(***************************************************************************)
\* decode(part1, options), part1 the first mid elements of the whole array
DecodePrefix ==
    /\ Idle
    /\ Len(history) = 1
    /\ history[1].fn = "decode"
    /\ \E mid \in 0..Len(history[1].input) :
           /\ heap' = Append(heap, SubSeq(history[1].input, 1, mid))
           /\ dec' = DecodeFrame(View(Len(heap) + 1, mid), history[1].options)
    /\ UNCHANGED <<enc, history, tables, writes, threads>>

\* decode(part2, options), part2 the elements after part1
DecodeSuffix ==
    /\ Idle
    /\ Len(history) = 2
    /\ history[1].fn = "decode"
    /\ LET whole == history[1].input
           part2 == SubSeq(whole, Len(history[2].input) + 1, Len(whole)) IN
       /\ heap' = Append(heap, part2)
       /\ dec' = DecodeFrame(View(Len(heap) + 1, Len(part2)), history[1].options)
    /\ UNCHANGED <<enc, history, tables, writes, threads>>

\* encode(part1, options), part1 the first mid units of the whole string
EncodePrefix ==
    /\ Idle
    /\ Len(history) = 1
    /\ history[1].fn = "encode"
    /\ \E mid \in 0..Len(history[1].input) :
           /\ enc' = EncodeFrame(SubSeq(history[1].input, 1, mid), history[1].options)
           /\ heap' = Allocate(heap, NewBuffer, NewUint8Array(mid))
    /\ UNCHANGED <<dec, history, tables, writes, threads>>

\* encode(part2, options), part2 the units after part1
EncodeSuffix ==
    /\ Idle
    /\ Len(history) = 2
    /\ history[1].fn = "encode"
    /\ LET whole == history[1].input
           part2 == SubSeq(whole, Len(history[2].input) + 1, Len(whole)) IN
       /\ enc' = EncodeFrame(part2, history[1].options)
       /\ heap' = Allocate(heap, NewBuffer, NewUint8Array(Len(part2)))
    /\ UNCHANGED <<dec, history, tables, writes, threads>>

NextParts ==
    \/ DecodeCall
    \/ DecodeIterate
    \/ DecodeThrow
    \/ DecodeReturn
    \/ EncodeCall
    \/ EncodeIterate
    \/ EncodeThrow
    \/ EncodeReturn
    \/ DecodePrefix
    \/ DecodeSuffix
    \/ EncodePrefix
    \/ EncodeSuffix

SpecParts == Init /\ [][NextParts]_vars

\* three finished calls of one function in one mode, the input of the first
\* being the input of the second followed by the input of the third
SplitCalls(fn, whole, part1, part2) ==
    /\ whole.fn = fn /\ part1.fn = fn /\ part2.fn = fn
    /\ whole.mode = part1.mode /\ whole.mode = part2.mode
    /\ whole.input = part1.input \o part2.input

(***************************************************************************)
(* C23  Decode distributes over concatenation: in replacement mode         *)
(* decode(a followed by b) is decode(a) followed by decode(b); in fatal    *)
(* mode the same holds whenever decode(a) and decode(b) both return.       *)
(***************************************************************************)
C23_DecodeConcat ==
    \A k, l, m \in DOMAIN history :
        (k # l /\ k # m /\ l # m
            /\ SplitCalls("decode", history[k], history[l], history[m]))
        => LET whole == history[k]
               part1 == history[l]
               part2 == history[m]
           IN /\ whole.mode = "replacement" =>
                 /\ ReturnedBy(whole) /\ ReturnedBy(part1) /\ ReturnedBy(part2)
                 /\ whole.outcome.value = part1.outcome.value \o part2.outcome.value
              /\ (whole.mode = "fatal" /\ ReturnedBy(part1) /\ ReturnedBy(part2)) =>
                 /\ ReturnedBy(whole)
                 /\ whole.outcome.value = part1.outcome.value \o part2.outcome.value

\* [0x41, 0x80, 0xE9] was decoded in fatal mode whole, and as [0x41] and
\* [0x80, 0xE9]
C23_Witness ==
    /\ Len(history) = 3
    /\ history[1].fn = "decode"
    /\ history[1].mode = "fatal"
    /\ history[1].input = <<65, 128, 233>>
    /\ history[2].input = <<65>>
    /\ history[3].input = <<128, 233>>
    /\ history[3].outcome = Returned(<<8364, 233>>)

\* the split falls between the two halves of a surrogate pair
SplitsPair(part1, part2) ==
    /\ part1 # <<>>
    /\ part2 # <<>>
    /\ IsHighSurrogate(part1[Len(part1)])
    /\ IsLowSurrogate(part2[1])

(***************************************************************************)
(* C24  Encode distributes over concatenation: whenever encode(s) and      *)
(* encode(t) both return, in either mode, and the split between s and t    *)
(* does not fall inside a surrogate pair, encode(s + t) returns the bytes  *)
(* of encode(s) followed by the bytes of encode(t).  When the split does   *)
(* fall inside a pair, the two halves give one 0x3F each and the whole     *)
(* string gives one 0x3F for the pair: one byte less.                      *)
(***************************************************************************)
C24_EncodeConcat ==
    \A k, l, m \in DOMAIN history :
        (k # l /\ k # m /\ l # m
            /\ SplitCalls("encode", history[k], history[l], history[m])
            /\ ReturnedBy(history[l]) /\ ReturnedBy(history[m]))
        => LET whole == history[k]
               part1 == history[l]
               part2 == history[m]
           IN /\ ReturnedBy(whole)
              /\ ~SplitsPair(part1.input, part2.input) =>
                    whole.outcome.value = part1.outcome.value \o part2.outcome.value
              /\ SplitsPair(part1.input, part2.input) =>
                    /\ whole.mode = "replacement"
                    /\ part1.outcome.value[Len(part1.outcome.value)] = 63
                    /\ part2.outcome.value[1] = 63
                    /\ whole.outcome.value
                           = part1.outcome.value \o Tail(part2.outcome.value)

\* U+1F60A was encoded in replacement mode whole, and as its high half and
\* its low half
C24_Witness ==
    /\ Len(history) = 3
    /\ history[1].fn = "encode"
    /\ history[1].input = <<55357, 56842>>
    /\ history[1].outcome = Returned(<<63>>)
    /\ history[2].input = <<55357>>
    /\ history[2].outcome = Returned(<<63>>)
    /\ history[3].outcome = Returned(<<63>>)

\* C24 as the claim has it, for every way of splitting the string at a
\* 16-bit unit boundary: whenever encode(s) and encode(t) both return,
\* encode(s + t) returns the bytes of the one followed by the bytes of the
\* other.
C24_EveryUnitBoundary ==
    \A k, l, m \in DOMAIN history :
        (k # l /\ k # m /\ l # m
            /\ SplitCalls("encode", history[k], history[l], history[m])
            /\ ReturnedBy(history[l]) /\ ReturnedBy(history[m]))
        => /\ ReturnedBy(history[k])
           /\ history[k].outcome.value
                  = history[l].outcome.value \o history[m].outcome.value

\* the string with every code point that has no byte replaced by '?'
Lossy(str) ==
    LET points == CodePoints(str) IN
    [j \in DOMAIN points |-> IF Encodable(points[j]) THEN points[j] ELSE 63]

(***************************************************************************)
(* C25  Lossy round trip: decode(encode(s, replacement)) is s with each    *)
(* code point that cannot be encoded (a surrogate pair and a lone          *)
(* surrogate being one code point each) replaced by one '?', and every     *)
(* code point that can be encoded left as it is.                           *)
(***************************************************************************)
C25_LossyRoundTrip ==
    \A k \in DOMAIN history :
        (/\ k < Len(history)
         /\ history[k].fn = "encode"
         /\ history[k].mode = "replacement"
         /\ history[k + 1].fn = "decode")
        => /\ ReturnedBy(history[k])
           /\ history[k + 1].input = history[k].outcome.value
           /\ history[k + 1].outcome = Returned(Lossy(history[k].input))

\* the euro sign and U+1F60A were encoded in replacement mode and decoded
C25_Witness ==
    /\ Len(history) = 2
    /\ history[1].fn = "encode"
    /\ history[1].mode = "replacement"
    /\ history[1].input = <<8364, 55357, 56842>>
    /\ history[2].fn = "decode"
    /\ history[2].outcome = Returned(<<8364, 63>>)

\* the code points decode may store: ASCII, U+00A0..U+00FF, the 27 of the
\* table, U+FFFD
DecodeOutput(c) ==
    \/ c >= 0 /\ c <= 127
    \/ c >= 160 /\ c <= 255
    \/ c \in SpecialCodePoints
    \/ c = 65533

(***************************************************************************)
(* C26  Decode output range: whatever the input and the mode, every code   *)
(* point decode stores and returns is ASCII, in U+00A0..U+00FF, one of the *)
(* 27 table code points, or U+FFFD; so never one of U+0080..U+009F, never  *)
(* a surrogate, never one above U+FFFF.                                    *)
(***************************************************************************)
C26_DecodeOutputRange ==
    /\ \A call \in Calls :
          (call.fn = "decode" /\ ReturnedBy(call)) =>
          LET points == CodePoints(call.outcome.value) IN
          \A j \in DOMAIN points :
              /\ DecodeOutput(points[j])
              /\ ~(points[j] >= 128 /\ points[j] <= 159)
              /\ ~IsSurrogate(points[j])
              /\ points[j] <= 65535
    /\ dec.fn = "decode" =>
          \A h \in 1..dec.charIndex : DecodeOutput(dec.chars[h])

\* a special byte, an undefined byte and an invalid value were decoded
C26_Witness ==
    \E call \in Calls :
        /\ call.fn = "decode"
        /\ call.input = <<128, 129, 300>>
        /\ call.outcome = Returned(<<8364, 65533, 65533>>)

\* a byte decode accepts in fatal mode
DecodableByte(b) == b >= 0 /\ b <= 255 /\ b \notin UndefinedBytes

(***************************************************************************)
(* C27  Encode output is always decodable: every byte encode stores and    *)
(* returns, in either mode and for any string, is an integer of 0..255     *)
(* other than 0x81, 0x8D, 0x8F, 0x90 and 0x9D, so that decode in fatal     *)
(* mode returns for every array encode returned.                           *)
(***************************************************************************)
C27_EncodeOutputDecodable ==
    /\ \A call \in Calls :
          (call.fn = "encode" /\ ReturnedBy(call)) =>
          \A j \in DOMAIN call.outcome.value : DecodableByte(call.outcome.value[j])
    /\ enc.fn = "encode" =>
          \A h \in 1..enc.byteIndex : DecodableByte(heap[enc.bytes.buffer][h])
    /\ \A k \in DOMAIN history :
          (/\ k < Len(history)
           /\ history[k].fn = "encode"
           /\ history[k + 1].fn = "decode"
           /\ history[k + 1].mode = "fatal")
          => /\ history[k + 1].input = history[k].outcome.value
             /\ ReturnedBy(history[k + 1])

\* 'A' and the control code U+0081 were encoded in replacement mode and the
\* bytes decoded in fatal mode
C27_Witness ==
    /\ Len(history) = 2
    /\ history[1].fn = "encode"
    /\ history[1].input = <<65, 129>>
    /\ history[1].outcome = Returned(<<65, 63>>)
    /\ history[2].fn = "decode"
    /\ history[2].mode = "fatal"
    /\ history[2].outcome = Returned(<<65, 63>>)

(***************************************************************************)
(* The caller of the mixed-mode tests: it calls the same function again on *)
(* the input of its first call, with any options.                          *)
(***************************************************************************)
\* decode(bytes, options) again, bytes the array of the first call
DecodeAgain ==
    /\ Idle
    /\ history # <<>>
    /\ Len(history) < MaxCalls
    /\ history[1].fn = "decode"
    /\ \E options \in Options : dec' = DecodeFrame(history[1].held, options)
    /\ UNCHANGED <<enc, history, heap, tables, writes, threads>>

\* encode(str, options) again, str the string of the first call
EncodeAgain ==
    /\ Idle
    /\ history # <<>>
    /\ Len(history) < MaxCalls
    /\ history[1].fn = "encode"
    /\ \E options \in Options :
           /\ enc' = EncodeFrame(history[1].input, options)
           /\ heap' = Allocate(heap, NewBuffer, NewUint8Array(Len(history[1].input)))
    /\ UNCHANGED <<dec, history, tables, writes, threads>>

NextModes ==
    \/ DecodeCall
    \/ DecodeIterate
    \/ DecodeThrow
    \/ DecodeReturn
    \/ EncodeCall
    \/ EncodeIterate
    \/ EncodeThrow
    \/ EncodeReturn
    \/ DecodeAgain
    \/ EncodeAgain

SpecModes == Init /\ [][NextModes]_vars

(***************************************************************************)
(* C28  Mode agreement, no embedded sentinels: on one input, decode in     *)
(* fatal mode returns exactly when the replacement-mode result holds no    *)
(* U+FFFD; encode in fatal mode returns exactly when every 0x3F of the     *)
(* replacement-mode result stands where the input has '?' (counting the    *)
(* input in code units, and counting it in code points); and a fatal-mode  *)
(* call that returns returns what the replacement-mode call returns.       *)
(***************************************************************************)
C28_ModeAgreement ==
    \A k, l \in DOMAIN history :
        (/\ history[k].fn = history[l].fn
         /\ history[k].input = history[l].input
         /\ history[k].mode = "fatal"
         /\ history[l].mode = "replacement")
        => LET fatal == history[k]
               lossy == history[l]
               input == lossy.input
               points == CodePoints(input)
           IN /\ ReturnedBy(lossy)
              /\ fatal.fn = "decode" =>
                    (ReturnedBy(fatal) <=>
                        \A j \in DOMAIN lossy.outcome.value :
                            lossy.outcome.value[j] # 65533)
              /\ fatal.fn = "encode" =>
                    /\ ReturnedBy(fatal) <=>
                          \A j \in DOMAIN lossy.outcome.value :
                              lossy.outcome.value[j] = 63 => input[j] = 63
                    /\ ReturnedBy(fatal) <=>
                          \A j \in DOMAIN lossy.outcome.value :
                              lossy.outcome.value[j] = 63 => points[j] = 63
              /\ ReturnedBy(fatal) => fatal.outcome = lossy.outcome

\* '?' and then U+0081 were encoded in fatal mode, which threw, and in
\* replacement mode, which returned two 0x3F
C28_Witness ==
    /\ Len(history) = 2
    /\ history[1].fn = "encode"
    /\ history[1].mode = "fatal"
    /\ history[1].input = <<63, 129>>
    /\ ThrownBy(history[1])
    /\ history[2].mode = "replacement"
    /\ history[2].outcome = Returned(<<63, 63>>)

(***************************************************************************)
(* decode on a number[] whose elements are any JavaScript numbers, or are  *)
(* missing.  A number here is a multiple of one half, held as twice its    *)
(* value: 65.5 is Number(131).  A missing slot reads as undefined.         *)
(***************************************************************************)
\* longest number[] the caller passes
MaxNumberLen == 2

Number(twice) == [kind |-> "number", twice |-> twice]
NaN == [kind |-> "NaN", twice |-> 0]
Undefined == [kind |-> "undefined", twice |-> 0]

\* the number with an integer value
Integer(n) == Number(2 * n)

\* ToNumber(value): undefined is NaN
ToNumber(value) == IF value.kind = "undefined" THEN NaN ELSE value

\* value < n, value > n, value <= n for an integer literal n: false for NaN
LessThan(value, n) == ToNumber(value).kind = "number" /\ value.twice < 2 * n
GreaterThan(value, n) == ToNumber(value).kind = "number" /\ value.twice > 2 * n
LessOrEqual(value, n) == ToNumber(value).kind = "number" /\ value.twice <= 2 * n

\* the value is a whole number
IsIntegral(value) == value.kind = "number" /\ value.twice % 2 = 0

\* Number.prototype.toString(radix) and the text of ${value}
NumberText(value, radix) ==
    IF value.kind = "number"
    THEN LET magnitude == IF value.twice < 0 THEN 0 - value.twice ELSE value.twice
             whole == NatToString(magnitude \div 2, radix)
             half == IF magnitude % 2 = 1
                     THEN <<".", Digit[(radix \div 2) + 1]>>
                     ELSE <<>>
         IN (IF value.twice < 0 THEN <<"-">> ELSE <<>>) \o whole \o half
    ELSE IF value.kind = "NaN" THEN <<"N", "a", "N">>
    ELSE <<"u", "n", "d", "e", "f", "i", "n", "e", "d">>

\* WINDOWS_1252_MAP[byte] !== undefined: the key is the text of the number
HasTableEntry(byte) ==
    IsIntegral(byte) /\ (byte.twice \div 2) \in DOMAIN tables.WINDOWS_1252_MAP

\* the body of decode's for loop, for the element `byte` of a number[]
DecodeNumber(byte, mode) ==
    IF LessThan(byte, 0) \/ GreaterThan(byte, 255)
    THEN IF mode = "fatal"
         THEN Throw(Error([text |-> "Invalid byte value: ${byte} (must be 0-255)",
                           byte |-> NumberText(byte, 10)]))
         ELSE Emit(Integer(65533))
    ELSE IF LessThan(byte, 128)
    THEN Emit(byte)
    ELSE IF LessOrEqual(byte, 159)
    THEN IF HasTableEntry(byte)
         THEN Emit(Integer(tables.WINDOWS_1252_MAP[byte.twice \div 2]))
         ELSE IF mode = "fatal"
              THEN Throw(Error([text |-> "Invalid Windows-1252 byte: 0x${hex}",
                                hex |-> ToUpperCase(NumberText(byte, 16))]))
              ELSE Emit(Integer(65533))
    ELSE Emit(byte)

\* String.fromCodePoint throws a RangeError for an argument that, as a
\* number, is not a whole number of 0..0x10FFFF
IsCodePointArgument(value) ==
    /\ IsIntegral(ToNumber(value))
    /\ value.twice >= 0
    /\ value.twice \div 2 <= 1114111

RangeError(value) == [name |-> "RangeError", argument |-> value]

\* return String.fromCodePoint(...chars.slice(0, charIndex)), or its throw
DecodeNumbersResult(frame) ==
    LET arguments == Slice(frame.chars, frame.charIndex) IN
    IF \A j \in DOMAIN arguments : IsCodePointArgument(arguments[j])
    THEN Returned(FromCodePoint([j \in DOMAIN arguments |-> arguments[j].twice \div 2]))
    ELSE Thrown(RangeError(
             arguments[CHOOSE j \in DOMAIN arguments :
                           /\ ~IsCodePointArgument(arguments[j])
                           /\ \A h \in 1..(j - 1) : IsCodePointArgument(arguments[h])]))

\* elements of the number[] inputs: 'H', 0x80, 0x81, 300, 65.5, 128.5,
\* 200.5, -0.5, NaN, a missing slot
NumberValues ==
    {Integer(72), Integer(128), Integer(129), Integer(300),
     Number(131), Number(257), Number(401), Number(-1), NaN, Undefined}

NumberInputs == SeqsOf(NumberValues, 0, MaxNumberLen)

\* decode(bytes, options), bytes a number[]
DecodeNumbersCall ==
    /\ Idle
    /\ history = <<>>
    /\ \E bytes \in NumberInputs, options \in Options :
           /\ heap' = Append(heap, bytes)
           /\ dec' = [fn |-> "decode", bytes |-> View(Len(heap) + 1, Len(bytes)),
                      options |-> options, mode |-> DecodeDefaultMode(options),
                      length |-> Len(bytes),
                      chars |-> [k \in 1..Len(bytes) |-> Undefined],
                      charIndex |-> 0, i |-> 0]
    /\ UNCHANGED <<enc, history, tables, writes, threads>>

\* one iteration of the loop that stores a value in chars
DecodeNumbersIterate ==
    /\ dec.fn = "decode"
    /\ dec.i < dec.length
    /\ LET step == DecodeNumber(heap[dec.bytes.buffer][dec.i + 1], dec.mode) IN
       /\ ~step.throws
       /\ dec' = [dec EXCEPT !.chars[dec.charIndex + 1] = step.value,
                             !.charIndex = dec.charIndex + 1,
                             !.i = dec.i + 1]
    /\ UNCHANGED <<enc, history, heap, tables, writes, threads>>

\* one iteration of the loop that throws one of decode's errors
DecodeNumbersThrow ==
    /\ dec.fn = "decode"
    /\ dec.i < dec.length
    /\ LET step == DecodeNumber(heap[dec.bytes.buffer][dec.i + 1], dec.mode) IN
       /\ step.throws
       /\ history' = Append(history,
              Finished(dec, Read(heap, dec.bytes), Thrown(step.error), dec.bytes))
    /\ dec' = NoFrame
    /\ UNCHANGED <<enc, heap, tables, writes, threads>>

\* the loop is over and String.fromCodePoint returns the string
DecodeNumbersReturn ==
    /\ dec.fn = "decode"
    /\ dec.i >= dec.length
    /\ DecodeNumbersResult(dec).kind = "return"
    /\ history' = Append(history,
           Finished(dec, Read(heap, dec.bytes), DecodeNumbersResult(dec), dec.bytes))
    /\ dec' = NoFrame
    /\ UNCHANGED <<enc, heap, tables, writes, threads>>

\* the loop is over and String.fromCodePoint throws: decode ends with the
\* RangeError
DecodeNumbersRangeError ==
    /\ dec.fn = "decode"
    /\ dec.i >= dec.length
    /\ DecodeNumbersResult(dec).kind = "throw"
    /\ history' = Append(history,
           Finished(dec, Read(heap, dec.bytes), DecodeNumbersResult(dec), dec.bytes))
    /\ dec' = NoFrame
    /\ UNCHANGED <<enc, heap, tables, writes, threads>>

NextNumbers ==
    \/ DecodeNumbersCall
    \/ DecodeNumbersIterate
    \/ DecodeNumbersThrow
    \/ DecodeNumbersReturn
    \/ DecodeNumbersRangeError

SpecNumbers == Init /\ [][NextNumbers]_vars

(***************************************************************************)
(* C29  Replacement-mode decode is total over untyped numeric input: for   *)
(* every number[] (whole numbers, numbers that are not whole such as 65.5, *)
(* NaN, missing slots) decode in replacement mode returns, raising no      *)
(* error, one valid code point per element.                                *)
(***************************************************************************)
C29_ReplacementTotal ==
    \A call \in Calls :
        (call.fn = "decode" /\ call.mode = "replacement") =>
        /\ ReturnedBy(call)
        /\ LET points == CodePoints(call.outcome.value) IN
           /\ Len(points) = Len(call.input)
           /\ \A j \in DOMAIN points :
                 points[j] >= 0 /\ points[j] <= 1114111 /\ ~IsSurrogate(points[j])

====
